---------------------------- MODULE Spec2Model ----------------------------
(***************************************************************************)
(* Model of the bodyapp backend (src/be): the male physique scorer, the    *)
(* SQLite scan store and the analyze-physique request handler.             *)
(*                                                                         *)
(* Numbers.  The code computes in binary floating point.  The model uses   *)
(* fixed point: a coordinate, a length, a ratio and a deviation are        *)
(* integers in thousandths (0.4 is 400); a score is an integer in          *)
(* thousandths of a point (73.3 is 73300); the weighted overall score is   *)
(* in units of 10^-5 points.  A square root and a quotient are rounded     *)
(* down to the next thousandth.  int(x) of a non-negative float is the     *)
(* floor, here a \div.                                                     *)
(***************************************************************************)
EXTENDS Integers, Sequences, FiniteSets, TLC

(***************************************************************************)
(* Bounds of the model.                                                    *)
(***************************************************************************)
MaxRequests == 2

MaxClock == 2

MaxCalls == 2

(***************************************************************************)
(* MediaPipe landmark indices, scoring.py lines 36-47.                     *)
(***************************************************************************)
NOSE == 0

LEFT_SHOULDER == 11

RIGHT_SHOULDER == 12

LEFT_WRIST == 15

LEFT_HIP == 23

RIGHT_HIP == 24

LEFT_ANKLE == 27

NumLandmarks == 33

None == "None"

Abs(x) == IF x < 0 THEN -x ELSE x

Min(a, b) == IF a < b THEN a ELSE b

Max(a, b) == IF a > b THEN a ELSE b

RECURSIVE SqrtIter(_, _, _)
SqrtIter(n, lo, hi) ==
    IF lo >= hi THEN lo
    ELSE LET mid == (lo + hi + 1) \div 2
         IN  IF mid * mid <= n THEN SqrtIter(n, mid, hi)
                               ELSE SqrtIter(n, lo, mid - 1)

\* math.sqrt on thousandths, rounded down
ISqrt(n) == SqrtIter(n, 0, 4000)

\* scoring.py calculate_distance: sqrt(dx*dx + dy*dy), z ignored
calculate_distance(point1, point2) ==
    LET dx == point1.x - point2.x
        dy == point1.y - point2.y
    IN  ISqrt(dx * dx + dy * dy)

\* a / b of two thousandth quantities, in thousandths
Ratio(a, b) == (1000 * a) \div b

\* int() of a score held in thousandths
ToInt(milli) == milli \div 1000

(***************************************************************************)
(* The seven category curves of score_male_physique, each from its ratio   *)
(* (thousandths) to a score (thousandths of a point).                      *)
(***************************************************************************)
\* a slip: the band edges taken as exclusive
ShouldersExclusiveEdges(r) ==
    IF r > 1450 THEN Min(100000, 85000 + (r - 1450) * 50)
    ELSE IF r > 1350 THEN 75000 + (r - 1350) * 100
    ELSE IF r > 1250 THEN 65000 + (r - 1250) * 100
    ELSE IF r > 1150 THEN 55000 + (r - 1150) * 100
    ELSE Max(40000, 40000 + r * 10)

ShouldersNoClamp(r) ==
    IF r >= 1450 THEN 85000 + (r - 1450) * 50
    ELSE IF r >= 1350 THEN 75000 + (r - 1350) * 100
    ELSE IF r >= 1250 THEN 65000 + (r - 1250) * 100
    ELSE IF r >= 1150 THEN 55000 + (r - 1150) * 100
    ELSE Max(40000, 40000 + r * 10)

shoulders_score(r) ==
    IF r >= 1450 THEN Min(100000, 85000 + (r - 1450) * 50)
    ELSE IF r >= 1350 THEN 75000 + (r - 1350) * 100
    ELSE IF r >= 1250 THEN 65000 + (r - 1250) * 100
    ELSE IF r >= 1150 THEN 55000 + (r - 1150) * 100
    ELSE Max(40000, 40000 + r * 10)

v_taper_score(r) ==
    IF r >= 1800 THEN Min(100000, 90000 + (r - 1800) * 25)
    ELSE IF r >= 1600 THEN 75000 + (r - 1600) * 75
    ELSE IF r >= 1400 THEN 60000 + (r - 1400) * 75
    ELSE Max(45000, r * 35)

core_score(r) ==
    IF r <= 550 THEN Min(100000, 95000 + (550 - r) * 100)
    ELSE IF r <= 650 THEN 80000 + (650 - r) * 150
    ELSE IF r <= 750 THEN 65000 + (750 - r) * 150
    ELSE Max(45000, 100000 - r * 50)

symmetry_score(d) ==
    IF d < 15 THEN 95000 + (15 - d) * 333
    ELSE IF d < 30 THEN 80000 + (30 - d) * 1000
    ELSE IF d < 50 THEN 65000 + (50 - d) * 750
    ELSE Max(50000, 100000 - d * 800)

chest_score(r) ==
    IF r >= 450 THEN Min(100000, 85000 + (r - 450) * 200)
    ELSE IF r >= 350 THEN 65000 + (r - 350) * 200
    ELSE Max(50000, r * 180)

posture_score(d) ==
    IF d < 80 THEN 90000 + (80 - d) * 125
    ELSE IF d < 150 THEN 70000 + (150 - d) * 285
    ELSE Max(50000, 100000 - d * 300)

arms_score(r) == Max(60000, Min(85000, 100000 - Abs(r - 500) * 200))

\* the category names of a ScoreSet, without 'overall'
Categories == {"shoulders", "v_taper", "chest", "core", "symmetry", "posture", "arms"}

AllCategories == Categories \cup {"overall"}

\* the weights of the overall score, in hundredths (scoring.py 266-274)
Weight(c) ==
    CASE c = "shoulders" -> 20
      [] c = "v_taper"   -> 18
      [] c = "chest"     -> 15
      [] c = "core"      -> 15
      [] c = "symmetry"  -> 12
      [] c = "posture"   -> 10
      [] c = "arms"      -> 10

\* sum over the seven categories of s[c] * Weight(c)
WeightedSum(s) ==
    s["shoulders"] * Weight("shoulders") + s["v_taper"] * Weight("v_taper")
    + s["chest"] * Weight("chest") + s["core"] * Weight("core")
    + s["symmetry"] * Weight("symmetry") + s["posture"] * Weight("posture")
    + s["arms"] * Weight("arms")

\* a plausible slip: the overall score computed from the truncated scores
OverallFromTruncated(raw) ==
    WeightedSum([c \in Categories |-> ToInt(raw[c]) * 1000])

\* scores['overall'] of scoring.py 266-274, in units of 10^-5 points:
\* the weighted sum of the untruncated category scores
overall_raw(raw) == WeightedSum(raw)

\* int() of the overall score held in units of 10^-5
OverallToInt(o) == o \div 100000


(***************************************************************************)
(* Landmark lists.  A list of n landmarks is a function on 0..n-1 to       *)
(* records [x, y]; z and visibility are read nowhere in the scorer.        *)
(* lst[i] with i outside the list raises IndexError in the code.           *)
(***************************************************************************)
HasIndex(lst, i) == i \in DOMAIN lst

Point(px, py) == [x |-> px, y |-> py]

\* a list of n landmarks holding pts[i] at each index i of pts, (0,0) elsewhere
MkLandmarks(n, pts) ==
    [i \in 0..(n - 1) |-> IF i \in DOMAIN pts THEN pts[i] ELSE Point(0, 0)]

(***************************************************************************)
(* score_male_physique, scoring.py 15-323.                                 *)
(***************************************************************************)
\* the highest front index read is LEFT_ANKLE (27); side_landmarks is read
\* only when it is non-empty ("if side_landmarks:")
score_male_raises(front, side) ==
    \/ \E i \in {NOSE, LEFT_SHOULDER, RIGHT_SHOULDER, LEFT_WRIST,
                 LEFT_HIP, RIGHT_HIP, LEFT_ANKLE} : ~HasIndex(front, i)
    \/ /\ DOMAIN side # {}
       /\ \E i \in {NOSE, LEFT_SHOULDER, LEFT_HIP, LEFT_ANKLE} : ~HasIndex(side, i)

\* the measurements and ratios of scoring.py 52-61, 96-97, 125, 157-159,
\* 182-184, 215-219, 242-250
male_ratios(front, side) ==
    LET shoulder_width == calculate_distance(front[LEFT_SHOULDER], front[RIGHT_SHOULDER])
        hip_width == calculate_distance(front[LEFT_HIP], front[RIGHT_HIP])
        \* waist_width = hip_width * 0.75, divisions carried out at once:
        \* shoulder/waist = 4*shoulder/(3*hip), waist/shoulder = 3*hip/(4*shoulder)
        shoulder_imbalance == Abs(front[LEFT_SHOULDER].y - front[RIGHT_SHOULDER].y)
        hip_imbalance == Abs(front[LEFT_HIP].y - front[RIGHT_HIP].y)
        torso_height == calculate_distance(front[NOSE], front[LEFT_HIP])
        arm_length == calculate_distance(front[LEFT_SHOULDER], front[LEFT_WRIST])
        leg_length == calculate_distance(front[LEFT_HIP], front[LEFT_ANKLE])
    IN  [ shoulder_width |-> shoulder_width,
          hip_width |-> hip_width,
          shoulder_hip_ratio |->
              IF hip_width > 0 THEN Ratio(shoulder_width, hip_width) ELSE 1000,
          v_taper_ratio |->
              IF hip_width > 0 THEN (4000 * shoulder_width) \div (3 * hip_width) ELSE 1000,
          waist_shoulder_ratio |->
              IF shoulder_width > 0 THEN (3000 * hip_width) \div (4 * shoulder_width) ELSE 1000,
          total_imbalance |-> (shoulder_imbalance + hip_imbalance) \div 2,
          chest_torso_ratio |->
              IF torso_height > 0 THEN (850 * shoulder_width) \div torso_height ELSE 1000,
          has_side |-> DOMAIN side # {},
          posture_deviation |->
              IF DOMAIN side # {}
              THEN LET head_forward == Abs(side[NOSE].x - side[LEFT_SHOULDER].x)
                       vertical_alignment == Abs(side[LEFT_SHOULDER].x - side[LEFT_ANKLE].x)
                   IN  (head_forward * 2 + vertical_alignment) \div 3
              ELSE 0,
          arm_leg_ratio |->
              IF leg_length > 0 THEN Ratio(arm_length, leg_length) ELSE 1000 ]

\* the untruncated category scores (thousandths of a point) of the ratios m
category_scores(m) ==
    [c \in Categories |->
        CASE c = "shoulders" -> shoulders_score(m.shoulder_hip_ratio)
          [] c = "v_taper"   -> v_taper_score(m.v_taper_ratio)
          [] c = "core"      -> core_score(m.waist_shoulder_ratio)
          [] c = "symmetry"  -> symmetry_score(m.total_imbalance)
          [] c = "chest"     -> chest_score(m.chest_torso_ratio)
          [] c = "posture"   -> IF m.has_side THEN posture_score(m.posture_deviation)
                                              ELSE 75000
          [] c = "arms"      -> arms_score(m.arm_leg_ratio)]

male_raw_scores(front, side) == category_scores(male_ratios(front, side))

\* a slip: the label taken from the overall score rounded to the nearest
\* integer
body_type_rounded(o) ==
    IF o + 50000 >= 8500000 THEN "Elite Physique"
    ELSE IF o + 50000 >= 7500000 THEN "Athletic"
    ELSE IF o + 50000 >= 6500000 THEN "Above Average"
    ELSE IF o + 50000 >= 5500000 THEN "Average"
    ELSE "Beginner"

\* body type from the untruncated overall score (units of 10^-5), 276-291
body_type_of(o) ==
    IF o >= 8500000 THEN "Elite Physique"
    ELSE IF o >= 7500000 THEN "Athletic"
    ELSE IF o >= 6500000 THEN "Above Average"
    ELSE IF o >= 5500000 THEN "Average"
    ELSE "Beginner"

\* a slip: the fallback ratio 1.0 counted as a medium frame
frame_medium_from_one(r) ==
    IF r >= 1400 THEN "Wide Frame"
    ELSE IF r >= 1250 THEN "Athletic Frame"
    ELSE IF r >= 1000 THEN "Medium Frame"
    ELSE "Narrow Frame"

\* frame from the shoulder/hip ratio, 293-301
frame_of(r) ==
    IF r >= 1400 THEN "Wide Frame"
    ELSE IF r >= 1250 THEN "Athletic Frame"
    ELSE IF r >= 1150 THEN "Medium Frame"
    ELSE "Narrow Frame"

(***************************************************************************)
(* strong_areas, growth_areas and the key insight, scoring.py 63-262 and   *)
(* 303-321.                                                                *)
(***************************************************************************)
\* the order in which the categories are scored: the order of collection
\* into the two lists and the insertion order of the scores dict
CategoryOrder == <<"shoulders", "v_taper", "core", "symmetry", "chest", "posture", "arms">>

\* the 'name' of a category's entry
AreaName(c) ==
    CASE c = "shoulders" -> "Shoulders"
      [] c = "v_taper"   -> "V-Taper"
      [] c = "core"      -> "Core"
      [] c = "symmetry"  -> "Symmetry"
      [] c = "chest"     -> "Chest"
      [] c = "posture"   -> "Posture"
      [] c = "arms"      -> "Arms"

\* strong_areas[:3], growth_areas[:3] (320-321)
MaxAreas == 3

\* a slip: the third shoulder band (65..75) also counted as strong
appends_strong_third_band(m, raw, c) ==
    CASE c = "shoulders" -> m.shoulder_hip_ratio >= 1250
      [] c = "v_taper"   -> m.v_taper_ratio >= 1600
      [] c = "core"      -> m.waist_shoulder_ratio <= 650
      [] c = "symmetry"  -> m.total_imbalance < 15
      [] c = "chest"     -> m.chest_torso_ratio >= 450
      [] c = "posture"   -> m.has_side /\ m.posture_deviation < 80
      [] c = "arms"      -> FALSE

\* the branches that append to strong_areas (65, 72, 101, 108, 129, 136,
\* 163, 188, 223)
appends_strong(m, raw, c) ==
    CASE c = "shoulders" -> m.shoulder_hip_ratio >= 1350
      [] c = "v_taper"   -> m.v_taper_ratio >= 1600
      [] c = "core"      -> m.waist_shoulder_ratio <= 650
      [] c = "symmetry"  -> m.total_imbalance < 15
      [] c = "chest"     -> m.chest_torso_ratio >= 450
      [] c = "posture"   -> m.has_side /\ m.posture_deviation < 80
      [] c = "arms"      -> FALSE

\* the branches that append to growth_areas (81, 88, 117, 145, 175, 198,
\* 233, 258)
appends_growth(m, raw, c) ==
    CASE c = "shoulders" -> m.shoulder_hip_ratio < 1250
      [] c = "v_taper"   -> m.v_taper_ratio < 1400 /\ raw[c] < 65000
      [] c = "core"      -> m.waist_shoulder_ratio > 750
      [] c = "symmetry"  -> m.total_imbalance >= 50 /\ raw[c] < 70000
      [] c = "chest"     -> m.chest_torso_ratio < 350 /\ raw[c] < 65000
      [] c = "posture"   -> m.has_side /\ m.posture_deviation >= 150 /\ raw[c] < 70000
      [] c = "arms"      -> raw[c] < 75000

\* an entry: 'name' and 'score' = int(scores[c]); 'description' is fixed by
\* the branch and is left out
area_entry(raw, c) == [name |-> AreaName(c), score |-> ToInt(raw[c])]

\* strong_areas as collected, before the sort
strong_collected(m, raw) ==
    LET cs == SelectSeq(CategoryOrder, LAMBDA c : appends_strong(m, raw, c))
    IN  [i \in 1..Len(cs) |-> area_entry(raw, cs[i])]

\* growth_areas as collected, before the sort
growth_collected(m, raw) ==
    LET cs == SelectSeq(CategoryOrder, LAMBDA c : appends_growth(m, raw, c))
    IN  [i \in 1..Len(cs) |-> area_entry(raw, cs[i])]

\* e put into a list sorted by sign * score, after the entries that are
\* not greater: list.sort is stable, also with reverse=True
RECURSIVE insert_sorted(_, _, _)
insert_sorted(s, e, sign) ==
    IF s = <<>> THEN <<e>>
    ELSE IF sign * s[Len(s)].score <= sign * e.score THEN Append(s, e)
    ELSE Append(insert_sorted(SubSeq(s, 1, Len(s) - 1), e, sign), s[Len(s)])

\* list.sort(key=score) for sign = 1, list.sort(key=score, reverse=True)
\* for sign = -1 (311-312)
RECURSIVE sort_areas(_, _)
sort_areas(s, sign) ==
    IF s = <<>> THEN <<>>
    ELSE insert_sorted(sort_areas(SubSeq(s, 1, Len(s) - 1), sign), s[Len(s)], sign)

\* the slip of sorting without the slice
areas_untruncated(s, sign) == sort_areas(s, sign)

\* the slip of slicing before the sort
areas_unsorted(s, sign) == SubSeq(s, 1, Min(MaxAreas, Len(s)))

\* the sorted list cut to its first three entries (311-312, 320-321)
top_areas(s, sign) ==
    LET sorted == sort_areas(s, sign)
    IN  SubSeq(sorted, 1, Min(MaxAreas, Len(sorted)))

\* the items of the scores dict, in insertion order (overall is added last)
ScoreOrder == CategoryOrder \o <<"overall">>

\* the key of max() and min() at 305-306: x[1] if x[0] != 'overall' else 0
insight_key(raw, c) == IF c = "overall" THEN 0 ELSE raw[c]

\* max(scores.items(), key=...)[0]: the first item with the greatest key
top_score_category(raw) ==
    LET i == CHOOSE i \in 1..Len(ScoreOrder) :
                 /\ \A j \in 1..Len(ScoreOrder) :
                       insight_key(raw, ScoreOrder[j]) <= insight_key(raw, ScoreOrder[i])
                 /\ \A j \in 1..(i - 1) :
                       insight_key(raw, ScoreOrder[j]) < insight_key(raw, ScoreOrder[i])
    IN  ScoreOrder[i]

\* min(scores.items(), key=...)[0]: the first item with the least key
bottom_score_category(raw) ==
    LET i == CHOOSE i \in 1..Len(ScoreOrder) :
                 /\ \A j \in 1..Len(ScoreOrder) :
                       insight_key(raw, ScoreOrder[j]) >= insight_key(raw, ScoreOrder[i])
                 /\ \A j \in 1..(i - 1) :
                       insight_key(raw, ScoreOrder[j]) > insight_key(raw, ScoreOrder[i])
    IN  ScoreOrder[i]

\* generate_key_insight, 326-357: the strength sentence of top_category and
\* the growth sentence of bottom_category, each named by its category;
\* dict.get's default sentence is named "default"
generate_key_insight(top_category, bottom_category) ==
    [ strength |-> IF top_category \in Categories THEN top_category ELSE "default",
      growth |-> IF bottom_category \in Categories THEN bottom_category ELSE "default" ]

\* the returned analysis (314-323); raw is kept beside it for the statements
\* about the untruncated scores and is no key of the code's dict
male_result(m, raw, o) ==
    [ overall_score |-> OverallToInt(o),
      scores |-> [c \in AllCategories |->
                     IF c = "overall" THEN OverallToInt(o) ELSE ToInt(raw[c])],
      body_type |-> body_type_of(o),
      frame |-> frame_of(m.shoulder_hip_ratio),
      strong_areas |-> top_areas(strong_collected(m, raw), -1),
      growth_areas |-> top_areas(growth_collected(m, raw), 1),
      key_insight |->
          generate_key_insight(top_score_category(raw), bottom_score_category(raw)),
      raw |-> raw,
      raw_overall |-> o ]

\* the overall score of the category scores, 266-274
male_rated(m, raw) == male_result(m, raw, overall_raw(raw))

\* the category scores of the ratios, 63-262
male_scored(m) == male_rated(m, category_scores(m))

\* the ratios of the two poses, 36-61, then the scores and the result
score_male_physique(front, side) == male_scored(male_ratios(front, side))

\* score_female_physique / score_non_binary_physique, 360-373: a dict with
\* overall_score and message only (no 'scores' key)
score_placeholder(gender) == [overall_score |-> 0, message |-> gender]

(***************************************************************************)
(* Poses: the landmark content of a request, by its consumed landmarks.    *)
(***************************************************************************)
FrontLandmarks(p) ==
    MkLandmarks(p.n_front,
                (NOSE :> p.nose) @@ (LEFT_SHOULDER :> p.ls) @@ (RIGHT_SHOULDER :> p.rs)
                @@ (LEFT_WRIST :> p.lw) @@ (LEFT_HIP :> p.lh) @@ (RIGHT_HIP :> p.rh)
                @@ (LEFT_ANKLE :> p.la))

SideLandmarks(p) ==
    MkLandmarks(p.n_side,
                (NOSE :> Point(p.s_nose_x, 100)) @@ (LEFT_SHOULDER :> Point(p.s_sh_x, 400))
                @@ (LEFT_HIP :> Point(p.s_sh_x, 700)) @@ (LEFT_ANKLE :> Point(p.s_ank_x, 1000)))

\* the spec's end-to-end scenario: shoulders (0.3,0.4)-(0.7,0.4), hips (0.35,0.7)-(0.65,0.7)
PoseA ==
    [ n_front |-> NumLandmarks, n_side |-> NumLandmarks,
      nose |-> Point(500, 100), ls |-> Point(300, 400), rs |-> Point(700, 400),
      lw |-> Point(250, 700), lh |-> Point(350, 700), rh |-> Point(650, 700),
      la |-> Point(350, 1000), s_nose_x |-> 500, s_sh_x |-> 500, s_ank_x |-> 500 ]

\* a narrower, tilted, slouching pose
PoseB ==
    [ n_front |-> NumLandmarks, n_side |-> NumLandmarks,
      nose |-> Point(500, 100), ls |-> Point(355, 440), rs |-> Point(645, 400),
      lw |-> Point(355, 640), lh |-> Point(350, 700), rh |-> Point(650, 700),
      la |-> Point(350, 1000), s_nose_x |-> 620, s_sh_x |-> 500, s_ank_x |-> 560 ]

\* a request whose landmark lists are empty
PoseEmpty == [PoseA EXCEPT !.n_front = 0, !.n_side = 0]

Pose(k) ==
    CASE k = "A" -> PoseA
      [] k = "B" -> PoseB
      [] k = "empty" -> PoseEmpty

RequestPoses == {"A", "B", "empty"}

Heights == {"None", "180"}

Input(g, k, h) == [gender |-> g, pose |-> k, height |-> h]

\* the requests tried: every gender branch, a full and an empty landmark
\* list, both heights
RequestInputs ==
    { Input("male", "A", "None"), Input("male", "B", "180"),
      Input("male", "empty", "None"),
      Input("female", "A", "180"),
      Input("non-binary", "A", "None"),
      Input("other", "A", "None") }

(***************************************************************************)
(* The store, database/connection.py.  Every method opens its own          *)
(* connection and commits once: one method call is one atomic step.        *)
(*                                                                         *)
(* create_user closes its connection only on the success path (121-123).   *)
(* When the INSERT fails on the PRIMARY KEY (124-125) the connection is    *)
(* left open inside the transaction the INSERT began, and keeps SQLite's   *)
(* write lock until Python's garbage collector finalizes it.  While the    *)
(* lock is held every other connection's INSERT waits for the busy         *)
(* timeout (timeout=10.0) and then raises sqlite3.OperationalError         *)
(* ("database is locked").  When the collector runs is not fixed by the    *)
(* program: the model lets it run at any time.                             *)
(***************************************************************************)
\* create_user, 109-125: INSERT; only the PRIMARY KEY conflict
\* (IntegrityError) is caught and answered with False
create_user(us, locked, user_id, gender, height_cm) ==
    IF locked
    THEN [users |-> us, ret |-> FALSE, raised |-> "OperationalError", locked |-> TRUE]
    ELSE IF user_id \in DOMAIN us
    THEN [users |-> us, ret |-> FALSE, raised |-> "", locked |-> TRUE]
    ELSE [ users |-> [u \in DOMAIN us \cup {user_id} |->
                         IF u = user_id THEN [gender |-> gender, height_cm |-> height_cm]
                                        ELSE us[u]],
           ret |-> TRUE, raised |-> "", locked |-> FALSE ]

\* dict.get(key, 0)
Get(d, k) == IF k \in DOMAIN d THEN d[k] ELSE 0

\* dict.get(key) of the analysis: None when the key is absent
GetStr(d, k) == IF k \in DOMAIN d THEN d[k] ELSE None

\* save_scan, 150-163: physique_analysis['overall_score'] and
\* physique_analysis['scores'] are plain subscripts (KeyError when absent),
\* evaluated before the INSERT is sent
save_scan_raises(physique_analysis) ==
    \/ "overall_score" \notin DOMAIN physique_analysis
    \/ "scores" \notin DOMAIN physique_analysis

\* the row save_scan inserts; scan_id is AUTOINCREMENT, rows are never deleted
scan_row(sc, user_id, pose, physique_analysis, is_baseline, date) ==
    [ scan_id |-> Len(sc) + 1,
      user_id |-> user_id,
      scan_date |-> date,
      is_baseline |-> is_baseline,
      front_pose_data |-> pose,
      overall_score |-> physique_analysis.overall_score,
      scores |-> physique_analysis.scores,
      body_type |-> GetStr(physique_analysis, "body_type"),
      frame |-> GetStr(physique_analysis, "frame") ]

\* an UPDATE-like slip: a new baseline scan clears the flag of the older rows
save_scan_clearing(sc, user_id, pose, physique_analysis, is_baseline, date) ==
    Append([i \in 1..Len(sc) |->
               IF sc[i].user_id = user_id /\ is_baseline
               THEN [sc[i] EXCEPT !.is_baseline = FALSE] ELSE sc[i]],
           scan_row(sc, user_id, pose, physique_analysis, is_baseline, date))

\* save_scan, 127-170 (when it does not raise): the table after the INSERT
save_scan(sc, user_id, pose, physique_analysis, is_baseline, date) ==
    Append(sc, scan_row(sc, user_id, pose, physique_analysis, is_baseline, date))

\* save_baseline_metrics, 196-211: front_landmarks[...] up to LEFT_ANKLE,
\* evaluated before the connection is opened
save_baseline_metrics_raises(front) ==
    \E i \in {LEFT_SHOULDER, RIGHT_SHOULDER, LEFT_HIP, RIGHT_HIP,
              LEFT_WRIST, LEFT_ANKLE} : ~HasIndex(front, i)

\* the row of save_baseline_metrics, 196-237
baseline_row(baseline_scan_id, front) ==
    LET shoulder_width == calculate_distance(front[LEFT_SHOULDER], front[RIGHT_SHOULDER])
        hip_width == calculate_distance(front[LEFT_HIP], front[RIGHT_HIP])
        arm_length == calculate_distance(front[LEFT_SHOULDER], front[LEFT_WRIST])
        leg_length == calculate_distance(front[LEFT_HIP], front[LEFT_ANKLE])
    IN  [ baseline_scan_id |-> baseline_scan_id,
          shoulder_hip_ratio |->
              IF hip_width > 0 THEN Ratio(shoulder_width, hip_width) ELSE 1000,
          waist_shoulder_ratio |->
              IF shoulder_width > 0 THEN (3000 * hip_width) \div (4 * shoulder_width) ELSE 1000,
          arm_leg_ratio |->
              IF leg_length > 0 THEN Ratio(arm_length, leg_length) ELSE 1000,
          shoulder_width_normalized |-> shoulder_width,
          hip_width_normalized |-> hip_width ]

\* save_baseline_metrics, 221-237: INSERT OR REPLACE on the UNIQUE user_id
save_baseline_metrics(bm, user_id, baseline_scan_id, front) ==
    [u \in DOMAIN bm \cup {user_id} |->
        IF u = user_id THEN baseline_row(baseline_scan_id, front) ELSE bm[u]]

\* save_progression, 256: current_scores['overall'] is a plain subscript,
\* evaluated before the INSERT is sent
save_progression_raises(current_scores) == "overall" \notin DOMAIN current_scores

\* the row of save_progression, 255-280
progression_row(user_id, scan_id, current_scores, baseline_scores, days) ==
    [ user_id |-> user_id, scan_id |-> scan_id, days_since_baseline |-> days,
      overall_score_delta |-> current_scores["overall"] - Get(baseline_scores, "overall"),
      deltas |-> [c \in Categories |-> Get(current_scores, c) - Get(baseline_scores, c)] ]

\* save_progression, 242-283 (when it does not raise): one INSERT
save_progression(pr, user_id, scan_id, current_scores, baseline_scores, days) ==
    Append(pr, progression_row(user_id, scan_id, current_scores, baseline_scores, days))

\* row put into a list ordered by days_since_baseline, after the rows that
\* are not greater
RECURSIVE insert_by_days(_, _)
insert_by_days(s, row) ==
    IF s = <<>> THEN <<row>>
    ELSE IF s[Len(s)].days_since_baseline <= row.days_since_baseline THEN Append(s, row)
    ELSE Append(insert_by_days(SubSeq(s, 1, Len(s) - 1), row), s[Len(s)])

RECURSIVE order_by_days(_)
order_by_days(s) ==
    IF s = <<>> THEN <<>>
    ELSE insert_by_days(order_by_days(SubSeq(s, 1, Len(s) - 1)), s[Len(s)])

\* get_progression_history, 322-339: WHERE p.user_id = ? ORDER BY
\* p.days_since_baseline ASC
get_progression_history(pr, user_id) ==
    order_by_days(SelectSeq(pr, LAMBDA row : row.user_id = user_id))

\* the rows get_baseline_scan's query selects from, 291-295:
\* WHERE user_id = ? AND is_baseline = 1
baseline_rows(sc, user_id) ==
    {i \in 1..Len(sc) : sc[i].user_id = user_id /\ sc[i].is_baseline}

(***************************************************************************)
(* State.                                                                  *)
(*   users, scans, baseline_metrics, progression: the four tables.         *)
(*   write_lock: the database's write lock is held by a connection that    *)
(*     create_user left open.                                              *)
(*   now: the clock, in half days.                                         *)
(*   pc, req, loc, resp: per analyze_physique call, its position, its      *)
(*     request, its local variables and its response.                      *)
(*   calls, ret: direct calls of the store's methods, and the last result. *)
(*   sc_pc, sc_in, sc_out: one call of score_male_physique.                *)
(*   pathways_db, user_progress_db: the in-memory dicts of api/pathway.py. *)
(*   path_resp, path_calls: the last response of a pathway endpoint, and   *)
(*     the number of calls made to them.                                   *)
(***************************************************************************)
VARIABLES users, scans, baseline_metrics, progression, write_lock, now,
          pc, req, loc, resp, calls, ret, sc_pc, sc_in, sc_out,
          pathways_db, user_progress_db, path_resp, path_calls

vars == <<users, scans, baseline_metrics, progression, write_lock, now,
          pc, req, loc, resp, calls, ret, sc_pc, sc_in, sc_out,
          pathways_db, user_progress_db, path_resp, path_calls>>

table_vars == <<users, scans, baseline_metrics, progression>>

store_vars == <<users, scans, baseline_metrics, progression, write_lock>>

request_vars == <<pc, req, loc, resp>>

score_vars == <<sc_pc, sc_in, sc_out>>

pathway_vars == <<pathways_db, user_progress_db, path_resp, path_calls>>

Requests == 1..MaxRequests

NoRows == [u \in {} |-> 0]

\* request.height is passed on to create_user and read nowhere else
NoReq == [gender |-> "", pose |-> ""]

NoLoc == [user_id |-> "", is_baseline |-> FALSE, baseline_scan |-> <<>>, scan_id |-> 0]

NoResp ==
    [ status |-> 0, error |-> "", is_baseline |-> FALSE, overall_score |-> 0,
      days_since_baseline |-> 0, score_change |-> 0 ]

NoRet == [op |-> "", args |-> <<>>, raised |-> "", ok |-> FALSE, value |-> 0]

\* physique.py 52: user_id = f"demo_user_{request.gender}"
UserId(gender) ==
    CASE gender = "male" -> "demo_user_male"
      [] gender = "female" -> "demo_user_female"
      [] gender = "non-binary" -> "demo_user_non-binary"
      [] OTHER -> "demo_user_other"

\* the analyses of the two full poses (constants, computed once)
AnalysisA == score_male_physique(FrontLandmarks(PoseA), SideLandmarks(PoseA))

AnalysisB == score_male_physique(FrontLandmarks(PoseB), SideLandmarks(PoseB))

\* physique.py 65-82 for a request the scorer accepts
analysis_of(gender, k) ==
    IF gender = "male"
    THEN (IF k = "A" THEN AnalysisA ELSE AnalysisB)
    ELSE score_placeholder(gender)

\* init_database, 19-107, on a new file: four empty tables
InitStore ==
    /\ users = NoRows
    /\ scans = <<>>
    /\ baseline_metrics = NoRows
    /\ progression = <<>>
    /\ write_lock = FALSE
    /\ now = 0

\* api/pathway.py 37-38: both dicts start empty
NoPathResp == [op |-> "", status |-> 0, detail |-> ""]

InitPathways ==
    /\ pathways_db = NoRows
    /\ user_progress_db = NoRows
    /\ path_resp = NoPathResp
    /\ path_calls = 0

InitRequests ==
    /\ pc = [r \in Requests |-> "idle"]
    /\ req = [r \in Requests |-> NoReq]
    /\ loc = [r \in Requests |-> NoLoc]
    /\ resp = [r \in Requests |-> NoResp]

\* init_database, 19-107, on a file an earlier run left behind: CREATE TABLE IF NOT
\* EXISTS keeps the rows.  The rows are those of one served request (male,
\* pose A); the earlier process's connections ended with it.
InitStoreReopened ==
    /\ users = create_user(NoRows, FALSE, "demo_user_male", "male", "None").users
    /\ scans = save_scan(<<>>, "demo_user_male", "A", AnalysisA, TRUE, 0)
    /\ baseline_metrics =
           save_baseline_metrics(NoRows, "demo_user_male", 1, FrontLandmarks(PoseA))
    /\ progression = <<>>
    /\ write_lock = FALSE
    /\ now = 0

InitRest ==
    /\ InitRequests
    /\ InitPathways
    /\ calls = 0
    /\ ret = NoRet
    /\ sc_pc = "off"
    /\ sc_in = <<>>
    /\ sc_out = <<>>

\* the process starts on a new database file
InitFresh == InitStore /\ InitRest

Init == (InitStore \/ InitStoreReopened) /\ InitRest

\* the garbage collector finalizes the connection create_user left open:
\* its transaction is rolled back and the write lock released
CollectGarbage ==
    /\ write_lock
    /\ write_lock' = FALSE
    /\ UNCHANGED <<table_vars, now, request_vars, calls, ret, score_vars, pathway_vars>>

\* time passes, in half days, between requests (a request takes no time
\* on this scale)
Tick ==
    /\ now < MaxClock
    /\ \A r \in Requests : pc[r] \in {"idle", "done"}
    /\ now' = now + 1
    /\ UNCHANGED <<store_vars, request_vars, calls, ret, score_vars, pathway_vars>>

(***************************************************************************)
(* analyze_physique, api/physique.py 33-148, one action per store call.    *)
(* An exception leaves through 141-148: ValueError as HTTP 400, any other  *)
(* as HTTP 500.                                                            *)
(***************************************************************************)
Finish(r, response) ==
    /\ pc' = [pc EXCEPT ![r] = "done"]
    /\ resp' = [resp EXCEPT ![r] = response]

Failure(status, error) == [NoResp EXCEPT !.status = status, !.error = error]

\* 45-56: the request arrives; db.create_user(user_id, gender, height)
StartRequest(r) ==
    /\ pc[r] = "idle"
    /\ IF r = 1 THEN TRUE ELSE pc[r - 1] # "idle"
    /\ \E i \in RequestInputs :
          LET res == create_user(users, write_lock, UserId(i.gender), i.gender, i.height)
          IN  /\ req' = [req EXCEPT ![r] = [gender |-> i.gender, pose |-> i.pose]]
              /\ loc' = [loc EXCEPT ![r].user_id = UserId(i.gender)]
              /\ users' = res.users
              /\ write_lock' = res.locked
              /\ IF res.raised # ""
                 THEN Finish(r, Failure(500, res.raised))
                 ELSE /\ pc' = [pc EXCEPT ![r] = "get_baseline"]
                      /\ UNCHANGED resp
    /\ UNCHANGED <<scans, baseline_metrics, progression, now, calls, ret, score_vars, pathway_vars>>

\* 59-60: baseline_scan = db.get_baseline_scan(user_id).  The query has
\* LIMIT 1 and no ORDER BY: any one of the user's baseline rows.
GetBaseline(r) ==
    /\ pc[r] = "get_baseline"
    /\ LET rows == baseline_rows(scans, loc[r].user_id)
       IN  \/ /\ rows = {}
              /\ loc' = [loc EXCEPT ![r].baseline_scan = <<>>, ![r].is_baseline = TRUE]
           \/ \E i \in rows :
                 loc' = [loc EXCEPT ![r].baseline_scan = <<scans[i]>>,
                                    ![r].is_baseline = FALSE]
    /\ pc' = [pc EXCEPT ![r] = "score"]
    /\ UNCHANGED <<store_vars, now, req, resp, calls, ret, score_vars, pathway_vars>>

ValidGender(g) == g \in {"male", "female", "non-binary"}

\* 83-84 and 141-143: raise ValueError -> HTTP 400
RejectGender(r) ==
    /\ pc[r] = "score"
    /\ ~ValidGender(req[r].gender)
    /\ Finish(r, Failure(400, "ValueError"))
    /\ UNCHANGED <<store_vars, now, req, loc, calls, ret, score_vars, pathway_vars>>

ScorerRaises(r) ==
    /\ req[r].gender = "male"
    /\ score_male_raises(FrontLandmarks(Pose(req[r].pose)), SideLandmarks(Pose(req[r].pose)))

\* a slip: the scan row is written before the scorer is called
ScoreFailsAfterInsert(r) ==
    /\ pc[r] = "score"
    /\ ScorerRaises(r)
    /\ scans' = save_scan(scans, loc[r].user_id, req[r].pose, AnalysisA,
                          loc[r].is_baseline, now)
    /\ Finish(r, Failure(500, "IndexError"))
    /\ UNCHANGED <<users, baseline_metrics, progression, write_lock, now, req, loc,
                   calls, ret, score_vars, pathway_vars>>

\* 66-70 and 144-148: the scorer's IndexError -> HTTP 500
ScoreFails(r) ==
    /\ pc[r] = "score"
    /\ ScorerRaises(r)
    /\ Finish(r, Failure(500, "IndexError"))
    /\ UNCHANGED <<store_vars, now, req, loc, calls, ret, score_vars, pathway_vars>>

\* the request is scored and its analysis can be handed to save_scan
Scored(r) ==
    /\ pc[r] = "score"
    /\ ValidGender(req[r].gender)
    /\ ~ScorerRaises(r)

\* 90-96 and 144-148: db.save_scan raises KeyError -> HTTP 500
SaveScanFails(r) ==
    /\ Scored(r)
    /\ save_scan_raises(analysis_of(req[r].gender, req[r].pose))
    /\ Finish(r, Failure(500, "KeyError"))
    /\ UNCHANGED <<store_vars, now, req, loc, calls, ret, score_vars, pathway_vars>>

\* 90-96 and 144-148: the INSERT of save_scan finds the database locked
SaveScanLocked(r) ==
    /\ Scored(r)
    /\ ~save_scan_raises(analysis_of(req[r].gender, req[r].pose))
    /\ write_lock
    /\ Finish(r, Failure(500, "OperationalError"))
    /\ UNCHANGED <<store_vars, now, req, loc, calls, ret, score_vars, pathway_vars>>

\* 65-96: score, then scan_id = db.save_scan(..., is_baseline=is_baseline)
SaveScan(r) ==
    /\ Scored(r)
    /\ ~save_scan_raises(analysis_of(req[r].gender, req[r].pose))
    /\ ~write_lock
    /\ scans' = save_scan(scans, loc[r].user_id, req[r].pose,
                          analysis_of(req[r].gender, req[r].pose),
                          loc[r].is_baseline, now)
    /\ loc' = [loc EXCEPT ![r].scan_id = Len(scans) + 1]
    /\ pc' = [pc EXCEPT ![r] = IF loc[r].is_baseline THEN "baseline_metrics"
                                                    ELSE "progression"]
    /\ UNCHANGED <<users, baseline_metrics, progression, write_lock, now,
                   req, resp, calls, ret, score_vars, pathway_vars>>

\* 100-101 and 144-148: the INSERT OR REPLACE finds the database locked
SaveBaselineMetricsLocked(r) ==
    /\ pc[r] = "baseline_metrics"
    /\ ~save_baseline_metrics_raises(FrontLandmarks(Pose(req[r].pose)))
    /\ write_lock
    /\ Finish(r, Failure(500, "OperationalError"))
    /\ UNCHANGED <<store_vars, now, req, loc, calls, ret, score_vars, pathway_vars>>

\* 100-103, 126-140: db.save_baseline_metrics, then the response
SaveBaselineMetrics(r) ==
    /\ pc[r] = "baseline_metrics"
    /\ LET front == FrontLandmarks(Pose(req[r].pose))
           a == analysis_of(req[r].gender, req[r].pose)
       IN  IF save_baseline_metrics_raises(front)
           THEN /\ Finish(r, Failure(500, "IndexError"))
                /\ UNCHANGED baseline_metrics
           ELSE /\ ~write_lock
                /\ baseline_metrics' =
                       save_baseline_metrics(baseline_metrics, loc[r].user_id,
                                             loc[r].scan_id, front)
                /\ Finish(r, [NoResp EXCEPT !.status = 200, !.is_baseline = TRUE,
                                            !.overall_score = a.overall_score])
    /\ UNCHANGED <<users, scans, progression, write_lock, now, req, loc, calls, ret, score_vars, pathway_vars>>

\* 113-119 and 144-148: the INSERT of save_progression finds the database locked
SaveProgressionLocked(r) ==
    /\ pc[r] = "progression"
    /\ write_lock
    /\ Finish(r, Failure(500, "OperationalError"))
    /\ UNCHANGED <<store_vars, now, req, loc, calls, ret, score_vars, pathway_vars>>

\* 104-124, 126-140: the deltas against the baseline read at line 59
SaveProgression(r) ==
    /\ pc[r] = "progression"
    /\ ~write_lock
    /\ LET a == analysis_of(req[r].gender, req[r].pose)
           baseline_scan == loc[r].baseline_scan[1]
           baseline_scores == baseline_scan.scores
           \* (datetime.now() - baseline_date).days, the clock in half days
           days_since == (now - baseline_scan.scan_date) \div 2
       IN  /\ progression' = save_progression(progression, loc[r].user_id, loc[r].scan_id,
                                              a.scores, baseline_scores, days_since)
           /\ Finish(r, [ status |-> 200, error |-> "", is_baseline |-> FALSE,
                          overall_score |-> a.overall_score,
                          days_since_baseline |-> days_since,
                          score_change |-> a.overall_score - baseline_scan.overall_score ])
    /\ UNCHANGED <<users, scans, baseline_metrics, write_lock, now, req, loc,
                   calls, ret, score_vars, pathway_vars>>

RequestStep(r) ==
    \/ StartRequest(r)
    \/ GetBaseline(r)
    \/ RejectGender(r)
    \/ ScoreFails(r)
    \/ SaveScanFails(r)
    \/ SaveScanLocked(r)
    \/ SaveScan(r)
    \/ SaveBaselineMetricsLocked(r)
    \/ SaveBaselineMetrics(r)
    \/ SaveProgressionLocked(r)
    \/ SaveProgression(r)

\* requests served by several worker processes on one database file: the
\* store calls of different requests interleave
Next == (\E r \in Requests : RequestStep(r)) \/ CollectGarbage \/ Tick

Spec == Init /\ [][Next]_vars

\* time passes while requests are in flight: datetime.now() is read anew at
\* connection.py 139 and at physique.py 110
TickInFlight ==
    /\ now < MaxClock
    /\ \E r \in Requests : pc[r] \notin {"idle", "done"}
    /\ now' = now + 1
    /\ UNCHANGED <<store_vars, request_vars, calls, ret, score_vars, pathway_vars>>

NextClock == Next \/ TickInFlight

\* several workers and a clock that advances at any moment
SpecClock == Init /\ [][NextClock]_vars

\* requests served one at a time (one worker: the handler never awaits)
Alone(r) == \A q \in Requests \ {r} : pc[q] \in {"idle", "done"}

NextSeq == (\E r \in Requests : Alone(r) /\ RequestStep(r)) \/ CollectGarbage \/ Tick

SpecSeq == InitFresh /\ [][NextSeq]_vars

(***************************************************************************)
(* The store's methods called directly, with any arguments.                *)
(***************************************************************************)
StoreUsers == {"demo_user_male", "demo_user_female"}

Restrict(f, S) == [c \in S |-> f[c]]

\* score dicts as a caller may pass them: full, or with categories missing
ScoreDict(k) ==
    CASE k = "A" -> AnalysisA.scores
      [] k = "B" -> AnalysisB.scores
      [] k = "partial" -> Restrict(AnalysisB.scores, {"overall", "shoulders", "core"})
      [] k = "no_overall" -> Restrict(AnalysisA.scores, Categories)
      [] k = "empty" -> NoRows

CurrentDicts == {"A", "partial", "no_overall", "empty"}

BaselineDicts == {"B", "partial", "empty"}

AnalysisOfKey(k) ==
    CASE k = "A" -> AnalysisA
      [] k = "B" -> AnalysisB
      [] k = "placeholder" -> score_placeholder("female")

\* the last call: its method, its arguments, and what it returned or raised
Returned(op, args, ok, value) ==
    [op |-> op, args |-> args, raised |-> "", ok |-> ok, value |-> value]

Raised(op, args, error) ==
    [op |-> op, args |-> args, raised |-> error, ok |-> FALSE, value |-> 0]

CallCreateUser ==
    /\ calls < MaxCalls
    /\ \E u \in StoreUsers, g \in {"male", "female"}, h \in Heights :
          LET res == create_user(users, write_lock, u, g, h)
          IN  /\ users' = res.users
              /\ write_lock' = res.locked
              /\ ret' = IF res.raised # "" THEN Raised("create_user", <<u, g, h>>, res.raised)
                        ELSE Returned("create_user", <<u, g, h>>, res.ret, 0)
    /\ calls' = calls + 1
    /\ UNCHANGED <<scans, baseline_metrics, progression, now, request_vars, score_vars, pathway_vars>>

CallSaveScan ==
    /\ calls < MaxCalls
    /\ \E u \in StoreUsers, k \in {"A", "B", "placeholder"}, b \in BOOLEAN :
          IF save_scan_raises(AnalysisOfKey(k))
          THEN /\ ret' = Raised("save_scan", <<u, k>>, "KeyError")
               /\ UNCHANGED scans
          ELSE IF write_lock
          THEN /\ ret' = Raised("save_scan", <<u, k>>, "OperationalError")
               /\ UNCHANGED scans
          ELSE /\ scans' = save_scan(scans, u, "A", AnalysisOfKey(k), b, now)
               /\ ret' = Returned("save_scan", <<u, k>>, TRUE, scans'[Len(scans')].scan_id)
    /\ calls' = calls + 1
    /\ UNCHANGED <<users, baseline_metrics, progression, write_lock, now,
                   request_vars, score_vars, pathway_vars>>

CallSaveBaselineMetrics ==
    /\ calls < MaxCalls
    /\ \E u \in StoreUsers, id \in {1, 2}, k \in RequestPoses :
          IF save_baseline_metrics_raises(FrontLandmarks(Pose(k)))
          THEN /\ ret' = Raised("save_baseline_metrics", <<u, k>>, "IndexError")
               /\ UNCHANGED baseline_metrics
          ELSE IF write_lock
          THEN /\ ret' = Raised("save_baseline_metrics", <<u, k>>, "OperationalError")
               /\ UNCHANGED baseline_metrics
          ELSE /\ baseline_metrics' =
                     save_baseline_metrics(baseline_metrics, u, id, FrontLandmarks(Pose(k)))
               /\ ret' = Returned("save_baseline_metrics", <<u, k>>, TRUE, 0)
    /\ calls' = calls + 1
    /\ UNCHANGED <<users, scans, progression, write_lock, now, request_vars, score_vars, pathway_vars>>

CallSaveProgression ==
    /\ calls < MaxCalls
    /\ \E u \in StoreUsers, id \in {1, 2}, c \in CurrentDicts, b \in BaselineDicts :
          IF save_progression_raises(ScoreDict(c))
          THEN /\ ret' = Raised("save_progression", <<u, c, b>>, "KeyError")
               /\ UNCHANGED progression
          ELSE IF write_lock
          THEN /\ ret' = Raised("save_progression", <<u, c, b>>, "OperationalError")
               /\ UNCHANGED progression
          ELSE /\ progression' =
                     save_progression(progression, u, id, ScoreDict(c), ScoreDict(b), 0)
               /\ ret' = Returned("save_progression", <<u, c, b>>, TRUE, 0)
    /\ calls' = calls + 1
    /\ UNCHANGED <<users, scans, baseline_metrics, write_lock, now, request_vars, score_vars, pathway_vars>>

NextStore ==
    \/ CallCreateUser
    \/ CallSaveScan
    \/ CallSaveBaselineMetrics
    \/ CallSaveProgression
    \/ CollectGarbage

SpecStore == Init /\ [][NextStore]_vars

(***************************************************************************)
(* One call of score_male_physique on a pose drawn from a grid.            *)
(***************************************************************************)
\* poses on the edges of the shoulder bands: hips 0.2 apart, shoulders
\* 0.29, 0.27, 0.25 and 0.23 apart
EdgeInputs ==
    [ n_front : {NumLandmarks}, n_side : {NumLandmarks, 0},
      nose : {Point(500, 100)},
      ls : {Point(355, 400), Point(365, 400), Point(375, 400), Point(385, 400)},
      rs : {Point(645, 400), Point(635, 400), Point(625, 400), Point(615, 400)},
      lw : {Point(250, 700)},
      lh : {Point(400, 700)},
      rh : {Point(600, 700)},
      la : {Point(350, 1000)},
      s_nose_x : {500}, s_sh_x : {500}, s_ank_x : {500} ]

GridInputs ==
    [ n_front : {NumLandmarks}, n_side : {NumLandmarks, 0},
      nose : {Point(500, 100), Point(350, 700)},
      ls : {Point(300, 400), Point(355, 400), Point(500, 400), Point(300, 440)},
      rs : {Point(700, 400), Point(645, 400), Point(500, 400)},
      lw : {Point(250, 700), Point(300, 400)},
      lh : {Point(350, 700), Point(400, 700), Point(500, 700), Point(350, 760)},
      rh : {Point(650, 700), Point(600, 700), Point(500, 700)},
      la : {Point(350, 1000), Point(350, 700)},
      s_nose_x : {500, 560}, s_sh_x : {500}, s_ank_x : {500, 700} ]

ScoreInputs == GridInputs \cup EdgeInputs

InitScore ==
    /\ InitStore
    /\ InitRequests
    /\ InitPathways
    /\ calls = 0
    /\ ret = NoRet
    /\ sc_pc = "input"
    /\ sc_in \in ScoreInputs
    /\ sc_out = <<>>

ScoreMale ==
    /\ sc_pc = "input"
    /\ sc_out' = score_male_physique(FrontLandmarks(sc_in), SideLandmarks(sc_in))
    /\ sc_pc' = "scored"
    /\ UNCHANGED <<store_vars, now, request_vars, calls, ret, sc_in, pathway_vars>>

NextScore == ScoreMale

SpecScore == InitScore /\ [][NextScore]_vars

(***************************************************************************)
(* extract_body_features, services/feature_extraction.py 56-284.           *)
(***************************************************************************)
LEFT_EAR == 7

RIGHT_WRIST == 16

LEFT_KNEE == 25

RIGHT_KNEE == 26

RIGHT_ANKLE == 28

\* round(x) of a non-negative x held as n / unit: to the nearest integer,
\* a tie to the even one
RoundHalfEven(n, unit) ==
    LET q == n \div unit
        r == n % unit
    IN  IF 2 * r < unit THEN q
        ELSE IF 2 * r > unit THEN q + 1
        ELSE IF q % 2 = 0 THEN q ELSE q + 1

\* the front indices read inside the try block (76-84, 130-137); a missing
\* one raises IndexError there
features_front_raises(front_pose) ==
    \E i \in {LEFT_SHOULDER, RIGHT_SHOULDER, LEFT_HIP, RIGHT_HIP, LEFT_KNEE, RIGHT_KNEE,
              LEFT_ANKLE, RIGHT_ANKLE, NOSE, LEFT_WRIST, RIGHT_WRIST} :
        ~HasIndex(front_pose, i)

\* the side indices read by calculate_posture_score (265-269); a missing
\* one raises inside its own try block
posture_raises(side_pose) ==
    \E i \in {LEFT_EAR, LEFT_SHOULDER, LEFT_HIP, LEFT_KNEE, LEFT_ANKLE} :
        ~HasIndex(side_pose, i)

\* a slip: the posture default taken as 0
posture_score_zero_default(side_pose) ==
    IF posture_raises(side_pose) THEN 0
    ELSE LET total_deviation == Abs(side_pose[LEFT_EAR].x - side_pose[LEFT_SHOULDER].x)
                                + Abs(side_pose[LEFT_SHOULDER].x - side_pose[LEFT_HIP].x)
         IN  Max(0, Min(100000, 100000 - total_deviation * 200))

\* calculate_posture_score, 262-284, in thousandths of a point: "except:
\* return 70"
calculate_posture_score(side_pose) ==
    IF posture_raises(side_pose) THEN 70000
    ELSE LET total_deviation == Abs(side_pose[LEFT_EAR].x - side_pose[LEFT_SHOULDER].x)
                                + Abs(side_pose[LEFT_SHOULDER].x - side_pose[LEFT_HIP].x)
         IN  Max(0, Min(100000, 100000 - total_deviation * 200))

\* the except branch, 252-257; raw_measurements and ratios stay as they
\* were when the exception was raised
default_features ==
    [ scores |-> [overall |-> 70, vtaper |-> 70, symmetry |-> 80, posture |-> 70],
      insights |-> <<"Unable to fully analyze - using baseline assessment">>,
      focus_areas |-> <<"general fitness">> ]

\* insights, 171-194, each named by its first words
feature_insights(vtaper_sc, symmetry_sc, posture_sc) ==
    << IF vtaper_sc >= 80000 THEN "Excellent shoulder-to-hip ratio"
       ELSE IF vtaper_sc >= 60000 THEN "Good foundation for V-taper"
       ELSE "V-taper needs development",
       IF symmetry_sc >= 90000 THEN "Excellent left-right body symmetry"
       ELSE IF symmetry_sc >= 75000 THEN "Good symmetry"
       ELSE "Noticeable asymmetry",
       IF posture_sc >= 80000 THEN "Good posture alignment"
       ELSE IF posture_sc >= 60000 THEN "Some postural issues"
       ELSE "Significant posture concerns" >>

\* focus_areas, 198-250, each entry named by its 'area'
feature_focus_areas(vtaper_sc, symmetry_sc, posture_sc, gender) ==
    (IF vtaper_sc < 70000 THEN <<"shoulders", "lats">> ELSE <<>>)
    \o (IF symmetry_sc < 85000 THEN <<"symmetry">> ELSE <<>>)
    \o (IF posture_sc < 70000 THEN <<"posture">> ELSE <<>>)
    \o (IF gender = "male" THEN <<"chest", "arms">> ELSE <<"glutes", "core">>)

\* extract_body_features, 56-259: the scores, insights and focus areas of
\* the returned dict
extract_body_features(front_pose, side_pose, gender) ==
    IF features_front_raises(front_pose) THEN default_features
    ELSE
    LET shoulder_width == calculate_distance(front_pose[LEFT_SHOULDER], front_pose[RIGHT_SHOULDER])
        hip_width == calculate_distance(front_pose[LEFT_HIP], front_pose[RIGHT_HIP])
        shoulder_hip_ratio == IF hip_width > 0 THEN Ratio(shoulder_width, hip_width) ELSE 0
        left_arm_length == calculate_distance(front_pose[LEFT_SHOULDER], front_pose[LEFT_WRIST])
        right_arm_length == calculate_distance(front_pose[RIGHT_SHOULDER], front_pose[RIGHT_WRIST])
        \* 1 - abs(l - r) / max(l, r, 0.001)
        symmetry == 1000 - (1000 * Abs(left_arm_length - right_arm_length))
                               \div Max(Max(left_arm_length, right_arm_length), 1)
        ideal_shr == IF gender = "male" THEN 1600 ELSE 1400
        vtaper_sc == Max(0, Min(100000, 100000 - Abs(shoulder_hip_ratio - ideal_shr) * 50))
        symmetry_sc == symmetry * 100
        posture_sc == calculate_posture_score(side_pose)
        \* in units of 10^-5 points
        overall_sc == vtaper_sc * 35 + symmetry_sc * 25 + posture_sc * 40
    IN  [ scores |-> [ vtaper |-> RoundHalfEven(vtaper_sc, 1000),
                       symmetry |-> RoundHalfEven(symmetry_sc, 1000),
                       posture |-> RoundHalfEven(posture_sc, 1000),
                       overall |-> RoundHalfEven(overall_sc, 100000) ],
          insights |-> feature_insights(vtaper_sc, symmetry_sc, posture_sc),
          focus_areas |-> feature_focus_areas(vtaper_sc, symmetry_sc,
                                              posture_sc, gender) ]

\* the side pose of a request, with the ear above the nose's x
FeatureSideLandmarks(p) ==
    MkLandmarks(p.n_side,
                (LEFT_EAR :> Point(p.s_nose_x, 100)) @@ (LEFT_SHOULDER :> Point(p.s_sh_x, 400))
                @@ (LEFT_HIP :> Point(p.s_sh_x, 700)) @@ (LEFT_KNEE :> Point(p.s_sh_x, 850))
                @@ (LEFT_ANKLE :> Point(p.s_ank_x, 1000)))

\* the front pose of a request: the right wrist, the knees and the right
\* ankle mirror the left side
FeatureFrontLandmarks(p) ==
    MkLandmarks(p.n_front,
                (NOSE :> p.nose) @@ (LEFT_SHOULDER :> p.ls) @@ (RIGHT_SHOULDER :> p.rs)
                @@ (LEFT_WRIST :> p.lw) @@ (RIGHT_WRIST :> Point(1000 - p.lw.x, 700))
                @@ (LEFT_HIP :> p.lh) @@ (RIGHT_HIP :> p.rh)
                @@ (LEFT_KNEE :> Point(p.lh.x, 850)) @@ (RIGHT_KNEE :> Point(p.rh.x, 850))
                @@ (LEFT_ANKLE :> p.la) @@ (RIGHT_ANKLE :> Point(p.rh.x, 1000)))

\* the calls tried: full, too short and empty lists, both ideal ratios
FeatureInputs ==
    [ n_front : {NumLandmarks, 28, 0}, n_side : {NumLandmarks, 24, 0},
      nose : {Point(500, 100)},
      ls : {Point(300, 400), Point(320, 400), Point(500, 400)},
      rs : {Point(700, 400), Point(500, 400)},
      lw : {Point(250, 700), Point(270, 690)},
      lh : {Point(350, 700), Point(500, 700)},
      rh : {Point(650, 700), Point(500, 700)},
      la : {Point(350, 1000)},
      s_nose_x : {500, 540, 860}, s_sh_x : {500}, s_ank_x : {500},
      gender : {"male", "female"} ]

InitFeatures ==
    /\ InitStore
    /\ InitRequests
    /\ InitPathways
    /\ calls = 0
    /\ ret = NoRet
    /\ sc_pc = "input"
    /\ sc_in \in FeatureInputs
    /\ sc_out = <<>>

ExtractFeatures ==
    /\ sc_pc = "input"
    /\ sc_out' = extract_body_features(FeatureFrontLandmarks(sc_in),
                                       FeatureSideLandmarks(sc_in), sc_in.gender)
    /\ sc_pc' = "extracted"
    /\ UNCHANGED <<store_vars, now, request_vars, calls, ret, sc_in, pathway_vars>>

NextFeatures == ExtractFeatures

SpecFeatures == InitFeatures /\ [][NextFeatures]_vars

(***************************************************************************)
(* analyze_body, body_analysis.py 16-134: the legacy analysis behind        *)
(* /api/analyze-body.  Lengths are in thousandths of a cm (distance * 200). *)
(***************************************************************************)
\* estimate_bmi, 16-28, in thousandths: waist_width / shoulder_width is not
\* guarded
estimate_bmi(waist_width, shoulder_width) ==
    IF shoulder_width = 0
    THEN [raised |-> "ZeroDivisionError", value |-> 0]
    ELSE [raised |-> "", value |-> 18000 + (Ratio(waist_width, shoulder_width) - 600) * 15]

\* body_fat_estimate, 118: max(8, min(25, bmi_estimate * 0.8)), in thousandths
body_fat_of(bmi) == Max(8000, Min(25000, (bmi * 8) \div 10))

\* analyze_body, 31-134: the exception raised, if any, the three guarded
\* ratios and the body-fat estimate
analyze_body(landmarks) ==
    IF ~HasIndex(landmarks, NumLandmarks - 1)
    THEN [raised |-> "ValueError", shoulder_hip_ratio |-> 0, arm_to_leg_ratio |-> 0,
          torso_leg_ratio |-> 0, bmi_estimate |-> 0, body_fat_estimate |-> 0,
          muscle_mass_estimate |-> 0]
    ELSE
    LET shoulder_width == calculate_distance(landmarks[LEFT_SHOULDER], landmarks[RIGHT_SHOULDER]) * 200
        hip_width == calculate_distance(landmarks[LEFT_HIP], landmarks[RIGHT_HIP]) * 200
        arm_length == calculate_distance(landmarks[LEFT_SHOULDER], landmarks[LEFT_WRIST]) * 200
        leg_length == calculate_distance(landmarks[LEFT_HIP], landmarks[LEFT_ANKLE]) * 200
        waist_width == (hip_width * 75) \div 100
        upper_body_height == calculate_distance(landmarks[NOSE], landmarks[LEFT_HIP]) * 200
        bmi_estimate == estimate_bmi(waist_width, shoulder_width)
    IN  [ raised |-> bmi_estimate.raised,
          shoulder_hip_ratio |-> IF hip_width > 0 THEN Ratio(shoulder_width, hip_width) ELSE 1000,
          arm_to_leg_ratio |-> IF leg_length > 0 THEN Ratio(arm_length, leg_length) ELSE 1000,
          torso_leg_ratio |-> IF leg_length > 0 THEN Ratio(upper_body_height, leg_length) ELSE 1000,
          bmi_estimate |-> bmi_estimate.value,
          body_fat_estimate |->
              IF bmi_estimate.raised # "" THEN 0 ELSE body_fat_of(bmi_estimate.value),
          muscle_mass_estimate |->
              IF bmi_estimate.raised # "" THEN 0
              ELSE 100000 - body_fat_of(bmi_estimate.value) ]

\* the landmark lists tried: the scorer's poses and an empty list
AnalyzeInputs == ScoreInputs \cup {PoseEmpty}

InitAnalyze ==
    /\ InitStore
    /\ InitRequests
    /\ InitPathways
    /\ calls = 0
    /\ ret = NoRet
    /\ sc_pc = "input"
    /\ sc_in \in AnalyzeInputs
    /\ sc_out = <<>>

AnalyzeBody ==
    /\ sc_pc = "input"
    /\ sc_out' = analyze_body(FrontLandmarks(sc_in))
    /\ sc_pc' = "analyzed"
    /\ UNCHANGED <<store_vars, now, request_vars, calls, ret, sc_in, pathway_vars>>

NextAnalyze == AnalyzeBody

SpecAnalyze == InitAnalyze /\ [][NextAnalyze]_vars

(***************************************************************************)
(* The legacy analysis built by analyze_physique, api/physique.py 126-134, *)
(* and generate_diet_plan, body_analysis.py 137-180.  Body fat is in       *)
(* tenths of a percent.                                                    *)
(***************************************************************************)
\* a slip: the estimate taken as 30 - overall_score * 0.2
legacy_body_fat_from_thirty(overall_score) ==
    Max(80, Min(250, 300 - overall_score * 2))

\* physique.py 128: max(8, min(25, 100 - overall_score * 0.2))
legacy_body_fat(overall_score) ==
    Max(80, Min(250, 1000 - overall_score * 2))

\* 160-163: round(calories * 0.3 / 4), round(calories * 0.4 / 4),
\* round(calories * 0.3 / 9)
diet_of(calories) ==
    [ calories |-> calories,
      protein |-> RoundHalfEven(calories * 3, 40),
      carbs |-> RoundHalfEven(calories * 4, 40),
      fats |-> RoundHalfEven(calories * 3, 90) ]

\* generate_diet_plan, 147-179: calories and the three macros
generate_diet_plan(body_fat) ==
    LET adjustment == IF body_fat > 180 THEN -300
                      ELSE IF body_fat < 120 THEN 300
                      ELSE 0
    IN  diet_of(2000 + adjustment)

\* physique.py 127-134: the legacy analysis and the diet plan of a response
legacy_plan(overall_score) ==
    [ bodyFatEstimate |-> legacy_body_fat(overall_score),
      muscleMassEstimate |-> 1000 - legacy_body_fat(overall_score),
      dietPlan |-> generate_diet_plan(legacy_body_fat(overall_score)) ]

InitDiet ==
    /\ InitStore
    /\ InitRequests
    /\ InitPathways
    /\ calls = 0
    /\ ret = NoRet
    /\ sc_pc = "input"
    /\ sc_in \in 0..100
    /\ sc_out = <<>>

DietPlan ==
    /\ sc_pc = "input"
    /\ sc_out' = legacy_plan(sc_in)
    /\ sc_pc' = "planned"
    /\ UNCHANGED <<store_vars, now, request_vars, calls, ret, sc_in, pathway_vars>>

NextDiet == DietPlan

SpecDiet == InitDiet /\ [][NextDiet]_vars

(***************************************************************************)
(* The pathway endpoints, api/pathway.py, and the generator behind them,   *)
(* services/pathway_generator.py.  A pathway id is the second in which the *)
(* pathway was generated; a task id "task_<day>_<kind>" is the pair        *)
(* <<day, kind>>.  Titles, descriptions and timestamps are left out.       *)
(***************************************************************************)
MaxPathCalls == 4

\* any(a['area'] in names for a in focus_areas), pathway_generator.py 349-350
has_focus(focus_areas, names) ==
    \E i \in DOMAIN focus_areas : focus_areas[i] \in names

\* get_workout_templates, 273-376: the name and xp of each template
get_workout_templates(focus_areas) ==
    << [name |-> "Push Day", xp |-> 30], [name |-> "Pull Day", xp |-> 30],
       [name |-> "Leg Day", xp |-> 35] >>
    \o (IF has_focus(focus_areas, {"posture"})
        THEN << [name |-> "Core & Posture", xp |-> 25] >> ELSE <<>>)
    \o << [name |-> "HIIT Conditioning", xp |-> 30] >>
    \o (IF has_focus(focus_areas, {"shoulders", "lats"})
        THEN << [name |-> "Shoulder Specialization", xp |-> 30] >> ELSE <<>>)

\* workout_templates[(day - 1) % len(workout_templates)], 141 and 187-188
template_of_day(workout_templates, day) ==
    workout_templates[((day - 1) % Len(workout_templates)) + 1]

\* the rest day tested before the assessment day
stage_type_rest_first(day) ==
    IF day % 7 = 0 THEN "recovery"
    ELSE IF day % 14 = 0 THEN "assessment"
    ELSE "workout"

\* generate_single_stage, 128-140
stage_type_of(day) ==
    IF day % 14 = 0 THEN "assessment"
    ELSE IF day % 7 = 0 THEN "recovery"
    ELSE "workout"

\* generate_single_stage, 134, 138 and 143
stage_xp(workout_templates, day) ==
    IF stage_type_of(day) = "assessment" THEN 50
    ELSE IF stage_type_of(day) = "recovery" THEN 15
    ELSE template_of_day(workout_templates, day).xp

\* get_difficulty_for_day, 162-173: day / total_days against 0.25, 0.5, 0.75
get_difficulty_for_day(day, total_days) ==
    IF 4 * day < total_days THEN "beginner"
    ELSE IF 2 * day < total_days THEN "intermediate"
    ELSE IF 4 * day < 3 * total_days THEN "advanced"
    ELSE "elite"

Task(day, kind, xp) == [id |-> <<day, kind>>, xp |-> xp, completed |-> FALSE]

\* generate_stage_tasks, 176-270
generate_stage_tasks(stage_type, day) ==
    IF stage_type = "workout"
    THEN << Task(day, "workout", 20), Task(day, "nutrition", 5), Task(day, "mindset", 5) >>
    ELSE IF stage_type = "recovery"
    THEN << Task(day, "stretch", 10), Task(day, "reflect", 5) >>
    ELSE IF stage_type = "assessment"
    THEN << Task(day, "photos", 30), Task(day, "measurements", 10), Task(day, "review", 10) >>
    ELSE <<>>

\* generate_single_stage, 119-159
generate_single_stage(day, total_days, workout_templates) ==
    [ day |-> day,
      type |-> stage_type_of(day),
      difficulty |-> get_difficulty_for_day(day, total_days),
      xp |-> stage_xp(workout_templates, day),
      completed |-> FALSE,
      tasks |-> generate_stage_tasks(stage_type_of(day), day) ]

RECURSIVE stages_from(_, _, _)
\* for day in range(1, commitment_days + 1): stages.append(...), 112-114
stages_from(day, commitment_days, workout_templates) ==
    IF day > commitment_days THEN <<>>
    ELSE << generate_single_stage(day, commitment_days, workout_templates) >>
         \o stages_from(day + 1, commitment_days, workout_templates)

\* generate_daily_stages, 98-116
generate_daily_stages(features, commitment_days) ==
    stages_from(1, commitment_days, get_workout_templates(features.focus_areas))

RECURSIVE sum_stage_xp(_)
\* sum(stage['xp'] for stage in stages), 49
sum_stage_xp(stages) ==
    IF stages = <<>> THEN 0
    ELSE stages[1].xp + sum_stage_xp(Tail(stages))

\* generate_pathway, 21-54
generate_pathway(id, features, commitment_days) ==
    [ id |-> id,
      commitment_days |-> commitment_days,
      total_xp |-> sum_stage_xp(generate_daily_stages(features, commitment_days)),
      stages |-> generate_daily_stages(features, commitment_days),
      focus_areas |-> features.focus_areas ]

\* api/pathway.py 74-81
initial_progress(id) ==
    [ current_pathway |-> id, current_day |-> 1, streak |-> 0,
      total_xp |-> 0, league |-> "bronze" ]

\* the thresholds compared with > in place of >=
league_above(total_xp) ==
    IF total_xp > 5000 THEN "diamond"
    ELSE IF total_xp > 2500 THEN "platinum"
    ELSE IF total_xp > 1000 THEN "gold"
    ELSE IF total_xp > 500 THEN "silver"
    ELSE "bronze"

\* api/pathway.py 133-143
league_of(total_xp) ==
    IF total_xp >= 5000 THEN "diamond"
    ELSE IF total_xp >= 2500 THEN "platinum"
    ELSE IF total_xp >= 1000 THEN "gold"
    ELSE IF total_xp >= 500 THEN "silver"
    ELSE "bronze"

\* next((s for s in pathway['stages'] if s['day'] == stage_day), None), 103:
\* the index of the first match, 0 for None
find_stage(stages, stage_day) ==
    LET found == {i \in DOMAIN stages : stages[i].day = stage_day}
    IN  IF found = {} THEN 0 ELSE CHOOSE i \in found : \A j \in found : i <= j

\* next((t for t in stage['tasks'] if t['id'] == task_id), None), 107
find_task(tasks, task_id) ==
    LET found == {i \in DOMAIN tasks : tasks[i].id = task_id}
    IN  IF found = {} THEN 0 ELSE CHOOSE i \in found : \A j \in found : i <= j

\* all(t['completed'] for t in stage['tasks']), 119
all_complete(tasks) == \A i \in DOMAIN tasks : tasks[i].completed

\* user_progress_db.get('demo_user', {}) with the defaults of the .get calls
\* that read it, 115-129
progress_of(progress_db) ==
    IF "demo_user" \in DOMAIN progress_db THEN progress_db["demo_user"]
    ELSE [ current_pathway |-> 0, current_day |-> 1, streak |-> 0,
           total_xp |-> 0, league |-> "" ]

NotFound(db, progress_db, what) ==
    [ pathways_db |-> db, user_progress_db |-> progress_db,
      resp |-> [op |-> "complete_task", status |-> 404, detail |-> what] ]

\* the day advanced from any current day
advance_day_always(current_day, stage_day) == stage_day + 1

\* if progress.get('current_day', 1) == request.stage_day: ..., 129-130
advance_day(current_day, stage_day) ==
    IF current_day = stage_day THEN stage_day + 1 ELSE current_day

\* lines 121-130 of complete_task
stage_completed(stage, tasks, progress, stage_day) ==
    [ stage |-> [stage EXCEPT !.tasks = tasks, !.completed = TRUE],
      progress |-> [progress EXCEPT
                       !.streak = progress.streak + 1,
                       !.current_day = advance_day(progress.current_day, stage_day)] ]

\* lines 121-130 run whether or not every task of the stage is completed
complete_stage_always(stage, tasks, progress, stage_day) ==
    stage_completed(stage, tasks, progress, stage_day)

\* lines 119-130 of complete_task, after the task is marked and its xp added
complete_stage(stage, tasks, progress, stage_day) ==
    IF all_complete(tasks)
    THEN stage_completed(stage, tasks, progress, stage_day)
    ELSE [ stage |-> [stage EXCEPT !.tasks = tasks], progress |-> progress ]

\* the xp added only when the task was not yet completed
earned_xp_once(task) == IF task.completed THEN 0 ELSE task.xp

\* progress['total_xp'] = progress.get('total_xp', 0) + task['xp'], 116
earned_xp(task) == task.xp

\* lines 111-153 of complete_task, the stage and the task found
complete_found(db, progress_db, request, s, t) ==
    LET pathway == db[request.pathway_id]
        stage == pathway.stages[s]
        task == stage.tasks[t]
        tasks == [stage.tasks EXCEPT ![t].completed = TRUE]
        credited == [progress_of(progress_db) EXCEPT !.total_xp = @ + earned_xp(task)]
        staged == complete_stage(stage, tasks, credited, request.stage_day)
        progress == [staged.progress EXCEPT !.league = league_of(staged.progress.total_xp)]
    IN  [ pathways_db |-> [db EXCEPT ![request.pathway_id].stages[s] = staged.stage],
          user_progress_db |-> ("demo_user" :> progress) @@ progress_db,
          resp |-> [ op |-> "complete_task", status |-> 200, detail |-> "",
                     stage_completed |-> all_complete(tasks),
                     xp_earned |-> task.xp, progress |-> progress ] ]

\* the lookups answered 200 in place of 404: the first stage and task stand in
complete_task_lenient(db, progress_db, request) ==
    IF request.pathway_id \notin DOMAIN db
    THEN [ NotFound(db, progress_db, "Pathway not found") EXCEPT !.resp.status = 200 ]
    ELSE LET stages == db[request.pathway_id].stages
             s == Max(1, find_stage(stages, request.stage_day))
         IN  complete_found(db, progress_db, request, s,
                            Max(1, find_task(stages[s].tasks, request.task_id)))

\* complete_task, 95-158
complete_task(db, progress_db, request) ==
    IF request.pathway_id \notin DOMAIN db
    THEN NotFound(db, progress_db, "Pathway not found")
    ELSE LET stages == db[request.pathway_id].stages
             s == find_stage(stages, request.stage_day)
         IN  IF s = 0 THEN NotFound(db, progress_db, "Stage not found")
             ELSE IF find_task(stages[s].tasks, request.task_id) = 0
             THEN NotFound(db, progress_db, "Task not found")
             ELSE complete_found(db, progress_db, request, s,
                                 find_task(stages[s].tasks, request.task_id))

RECURSIVE complete_task_times(_, _, _, _)
\* the same request sent `times` times in a row, up to the first answer that
\* is not a 200: the first half of the calls, then the rest on what they left
complete_task_times(db, progress_db, request, times) ==
    IF times = 1 THEN complete_task(db, progress_db, request)
    ELSE LET first == complete_task_times(db, progress_db, request, times \div 2)
         IN  IF first.resp.status # 200 THEN first
             ELSE complete_task_times(first.pathways_db, first.user_progress_db,
                                      request, times - (times \div 2))

\* the pose sent to /generate-pathway
PathwayPoses ==
    { p \in FeatureInputs :
        /\ p.ls = Point(300, 400) /\ p.rs = Point(700, 400)
        /\ p.lw = Point(250, 700) /\ p.lh = Point(350, 700) /\ p.rh = Point(650, 700)
        /\ p.gender = "male" /\ p.n_side = NumLandmarks
        /\ p.n_front = NumLandmarks /\ p.s_nose_x = 860 }

CommitmentDays == {1, 14}

StageDays == {1, 7, 14}

TaskIds ==
    { <<1, "workout">>, <<1, "nutrition">>, <<1, "mindset">>,
      <<7, "stretch">>, <<7, "reflect">>, <<14, "photos">> }

\* a request is sent once; the request for the first workout also 25 or 125
\* times in a row, which earns 500 or 2500 xp
RepeatCounts == {25, 125}

RepeatedTaskIds == { <<1, "workout">> }

\* datetime.now() to the second, pathway_generator.py 34: the second of the
\* latest pathway or a later one
LatestId == CHOOSE i \in DOMAIN pathways_db : \A j \in DOMAIN pathways_db : j <= i

NextIds == IF DOMAIN pathways_db = {} THEN {1} ELSE {LatestId, LatestId + 1}

\* generate_user_pathway, api/pathway.py 41-91.  extract_body_features
\* returns its defaults in place of raising, so line 91 is not reached.
GenerateUserPathway ==
    /\ path_calls < MaxPathCalls
    /\ \E p \in PathwayPoses, n \in CommitmentDays, id \in NextIds :
         LET features == extract_body_features(FeatureFrontLandmarks(p),
                                               FeatureSideLandmarks(p), p.gender)
         IN  /\ pathways_db' = (id :> generate_pathway(id, features, n)) @@ pathways_db
             /\ user_progress_db' = ("demo_user" :> initial_progress(id)) @@ user_progress_db
             /\ path_resp' = [ op |-> "generate_pathway", status |-> 200, detail |-> "",
                               request |-> [commitment_days |-> n], times |-> 1 ]
    /\ path_calls' = path_calls + 1
    /\ UNCHANGED <<store_vars, now, request_vars, calls, ret, score_vars>>

\* the pathway ids sent to /complete-task: the stored ones and an unknown one
CompleteRequests ==
    [ pathway_id : DOMAIN pathways_db \cup {0}, stage_day : StageDays, task_id : TaskIds ]

CompleteCalls ==
    (CompleteRequests \X {1})
    \cup ({r \in CompleteRequests : r.task_id \in RepeatedTaskIds /\ r.stage_day = r.task_id[1]}
          \X RepeatCounts)

\* complete_task, api/pathway.py 94-158: one request, sent once or repeated.
\* path_resp keeps the request of a call answered 200.
CompleteTask ==
    /\ path_calls < MaxPathCalls
    /\ \E call \in CompleteCalls :
         LET out == complete_task_times(pathways_db, user_progress_db, call[1], call[2])
         IN  /\ pathways_db' = out.pathways_db
             /\ user_progress_db' = out.user_progress_db
             /\ path_resp' = IF out.resp.status = 200
                             THEN out.resp @@ [request |-> call[1], times |-> call[2]]
                             ELSE out.resp
    /\ path_calls' = path_calls + 1
    /\ UNCHANGED <<store_vars, now, request_vars, calls, ret, score_vars>>

NextPathway == GenerateUserPathway \/ CompleteTask

SpecPathway == InitFresh /\ [][NextPathway]_vars

(***************************************************************************)
(* generate_pathway on its own, for each commitment period up to           *)
(* MaxCommitmentDays and the features of several poses.                    *)
(***************************************************************************)
MaxCommitmentDays == 30

\* poses with and without a shoulder focus and a posture focus, and front
\* poses too short to analyse, which give the default features
StagePoses ==
    { p \in FeatureInputs :
        /\ p.ls \in {Point(300, 400), Point(500, 400)} /\ p.rs = Point(700, 400)
        /\ p.lw = Point(250, 700) /\ p.lh = Point(350, 700) /\ p.rh = Point(650, 700)
        /\ p.n_side = NumLandmarks /\ p.n_front \in {NumLandmarks, 0} }

StageInputs == [ commitment_days : 1..MaxCommitmentDays, pose : StagePoses ]

InitStages ==
    /\ InitStore
    /\ InitRequests
    /\ InitPathways
    /\ calls = 0
    /\ ret = NoRet
    /\ sc_pc = "input"
    /\ sc_in \in StageInputs
    /\ sc_out = <<>>

\* api/pathway.py 48-68: the features of the pose, then generate_pathway
GeneratePathway ==
    /\ sc_pc = "input"
    /\ sc_out' = generate_pathway(1, extract_body_features(FeatureFrontLandmarks(sc_in.pose),
                                                           FeatureSideLandmarks(sc_in.pose),
                                                           sc_in.pose.gender),
                                  sc_in.commitment_days)
    /\ sc_pc' = "generated"
    /\ UNCHANGED <<store_vars, now, request_vars, calls, ret, sc_in, pathway_vars>>

NextStages == GeneratePathway

SpecStages == InitStages /\ [][NextStages]_vars

(***************************************************************************)
(* Properties.                                                             *)
(***************************************************************************)
\* the progression rows that reference scan id
ProgressionOf(id) == {j \in 1..Len(progression) : progression[j].scan_id = id}

\* the scans of a user, by id
ScansOf(u) == {i \in 1..Len(scans) : scans[i].user_id = u}

SetMin(S) == CHOOSE x \in S : \A y \in S : x <= y

\* no request is in flight
Quiescent == \A r \in Requests : pc[r] \in {"idle", "done"}

\* a request with a gender the API names and two full 33-landmark lists
WellFormed(r) == ValidGender(req[r].gender) /\ req[r].pose \in {"A", "B"}

\* the requests for r's user that arrived before r
SameUserBefore(r) ==
    {q \in Requests : q < r /\ pc[q] # "idle" /\ loc[q].user_id = loc[r].user_id}

Persisted(r) == loc[r].scan_id \in 1..Len(scans)

FirstScanIsBaseline(r) ==
    /\ Persisted(r)
    /\ scans[loc[r].scan_id].is_baseline
    /\ ProgressionOf(loc[r].scan_id) = {}

SecondScanProgresses(r, q) ==
    /\ Persisted(r)
    /\ Persisted(q)
    /\ ~scans[loc[r].scan_id].is_baseline
    /\ Cardinality(ProgressionOf(loc[r].scan_id)) = 1
    /\ \A j \in ProgressionOf(loc[r].scan_id) :
          progression[j].overall_score_delta =
              scans[loc[r].scan_id].overall_score - scans[loc[q].scan_id].overall_score

\* C1 (as claimed; a new database file, requests served one after another,
\* SpecSeq): for a fresh user_id the first well-formed analysis request, once
\* answered, has persisted a scan flagged is_baseline with no progression
\* row, and the second has persisted a scan not flagged, with exactly one
\* progression row whose overall_score_delta is second.overall - first.overall.
C1_FirstBaselineSecondProgression ==
    \A r \in Requests :
        (pc[r] = "done" /\ WellFormed(r)) =>
            /\ SameUserBefore(r) = {} => FirstScanIsBaseline(r)
            /\ \A q \in Requests :
                  (SameUserBefore(r) = {q} /\ WellFormed(q)) => SecondScanProgresses(r, q)

\* C2 (as claimed; any interleaving, Spec): every user has at most one scan
\* flagged is_baseline, and it is the first scan persisted for that user.
C2_OneBaselineTheFirst ==
    \A i \in 1..Len(scans) :
        scans[i].is_baseline => i = SetMin(ScansOf(scans[i].user_id))

\* C3 (as claimed; Spec): a baseline_metrics row, once written, is never
\* overwritten: the second writer of a user's row is refused.
C3_BaselineMetricsNeverOverwritten ==
    [][\A u \in DOMAIN baseline_metrics :
          u \in DOMAIN baseline_metrics' /\ baseline_metrics'[u] = baseline_metrics[u]]_vars

\* C4 (as claimed; SpecStore): a call of create_user with a user_id that is
\* already stored does not raise, returns False, and leaves the users table
\* as it was.
C4_CreateUserIdempotent ==
    [][(calls' = calls + 1 /\ ret'.op = "create_user" /\ ret'.args[1] \in DOMAIN users) =>
          (ret'.raised = "" /\ ret'.ok = FALSE /\ users' = users)]_vars

\* C5 (SpecStore): the scans table is append-only.  No step changes or
\* removes a stored scan row; the table changes only by one row appended by
\* a save_scan that returns, and the id it returns is the new row's id and
\* differs from the id of every row stored before.
C5_ScansAppendOnly ==
    [][/\ Len(scans') >= Len(scans)
       /\ \A i \in 1..Len(scans) : scans'[i] = scans[i]
       /\ scans' # scans =>
             /\ Len(scans') = Len(scans) + 1
             /\ ret'.op = "save_scan" /\ ret'.raised = ""
             /\ ret'.value = scans'[Len(scans')].scan_id
             /\ \A i \in 1..Len(scans) : scans[i].scan_id # ret'.value
       /\ (calls' = calls + 1 /\ ret'.op = "save_scan" /\ ret'.raised = "") =>
             Len(scans') = Len(scans) + 1]_vars

\* a second baseline scan of one user was saved with id 2, and the first
\* row still carries its flag
C5_SecondScanSaved ==
    /\ ret.op = "save_scan" /\ ret.raised = "" /\ ret.value = 2
    /\ Len(scans) = 2
    /\ scans[1].user_id = scans[2].user_id
    /\ scans[1].is_baseline /\ scans[2].is_baseline

\* C6 (as claimed, read at its weakest: only when no request is in flight;
\* Spec): every stored scan that is not a baseline is referenced by exactly
\* one progression row, a baseline scan by none, and a progression row
\* carries the user of the scan it references.
C6_OneProgressionPerLaterScan ==
    Quiescent =>
        \A i \in 1..Len(scans) :
            /\ Cardinality(ProgressionOf(i)) = (IF scans[i].is_baseline THEN 0 ELSE 1)
            /\ \A j \in ProgressionOf(i) : progression[j].user_id = scans[i].user_id

\* C7 (as claimed, read at its weakest: only when no request is in flight;
\* Spec): every user with a stored scan has a baseline_metrics row, and its
\* baseline_scan_id is the id of every scan of that user flagged is_baseline.
C7_OneBaselineMetricsRow ==
    Quiescent =>
        \A u \in {scans[i].user_id : i \in 1..Len(scans)} :
            /\ u \in DOMAIN baseline_metrics
            /\ \A i \in ScansOf(u) :
                  scans[i].is_baseline => baseline_metrics[u].baseline_scan_id = i

\* C8 (as claimed; SpecStore): save_progression never fails because a
\* category, overall included, is missing from current_scores or
\* baseline_scores.
C8_ProgressionNeverKeyError ==
    ret.op = "save_progression" => ret.raised # "KeyError"

\* C9 (SpecScore): every category score and the overall score emitted by
\* score_male_physique for 33-landmark lists lies in 0..100, and
\* overall_score too.
C9_ScoresWithinRange ==
    sc_pc = "scored" =>
        /\ \A c \in AllCategories : sc_out.scores[c] \in 0..100
        /\ sc_out.overall_score \in 0..100

\* a pose with zero hip width and zero shoulder width was scored, and a
\* pose with a category at its upper clamp
C9_DegenerateScored ==
    /\ sc_pc = "scored"
    /\ \/ sc_in.lh = sc_in.rh /\ sc_in.ls = sc_in.rs /\ sc_in.la = sc_in.lh
       \/ sc_out.scores["shoulders"] = 100 /\ sc_out.scores["chest"] = 100

\* the emitted category scores of a result, with their weights, in hundredths
EmittedWeightedSum(result) == WeightedSum([c \in Categories |-> result.scores[c]])

\* C10 (as claimed; SpecScore): overall_score is the floor of the weighted
\* sum of the seven category scores of the result's ScoreSet, and
\* scores['overall'] equals overall_score.
C10_OverallFloorOfEmitted ==
    sc_pc = "scored" =>
        /\ sc_out.overall_score = EmittedWeightedSum(sc_out) \div 100
        /\ sc_out.scores["overall"] = sc_out.overall_score

\* C10 (amended; SpecScore): overall_score is the floor of the weighted sum
\* of the seven category scores before they are truncated to integers; it
\* is the floor of the weighted sum of the emitted scores or one more, and
\* scores['overall'] equals overall_score.
C10_OverallFloorOfUntruncated ==
    sc_pc = "scored" =>
        /\ sc_out.overall_score =
              (Weight("shoulders") * sc_out.raw["shoulders"]
               + Weight("v_taper") * sc_out.raw["v_taper"]
               + Weight("chest") * sc_out.raw["chest"]
               + Weight("core") * sc_out.raw["core"]
               + Weight("symmetry") * sc_out.raw["symmetry"]
               + Weight("posture") * sc_out.raw["posture"]
               + Weight("arms") * sc_out.raw["arms"]) \div 100000
        /\ \A c \in Categories : sc_out.scores[c] = sc_out.raw[c] \div 1000
        /\ sc_out.overall_score - EmittedWeightedSum(sc_out) \div 100 \in {0, 1}
        /\ sc_out.scores["overall"] = sc_out.overall_score

\* a pose was scored whose overall_score is one more than the floor over
\* the emitted scores
C10_OneMoreThanEmitted ==
    /\ sc_pc = "scored"
    /\ sc_out.overall_score = EmittedWeightedSum(sc_out) \div 100 + 1

\* the two lists as collected for the pose scored, before sort and slice
CollectedStrong ==
    strong_collected(male_ratios(FrontLandmarks(sc_in), SideLandmarks(sc_in)), sc_out.raw)

CollectedGrowth ==
    growth_collected(male_ratios(FrontLandmarks(sc_in), SideLandmarks(sc_in)), sc_out.raw)

\* the names of the entries of a list
AreaNames(s) == {s[i].name : i \in 1..Len(s)}

\* C11 (SpecScore): in every result of score_male_physique strong_areas and
\* growth_areas hold at most 3 entries each, no name is in both lists, no
\* name is twice in one list, and every name is one of the seven
\* categories (none is for 'overall').
C11_AreasBoundedDisjoint ==
    sc_pc = "scored" =>
        /\ Len(sc_out.strong_areas) <= 3
        /\ Len(sc_out.growth_areas) <= 3
        /\ AreaNames(sc_out.strong_areas) \cap AreaNames(sc_out.growth_areas) = {}
        /\ Cardinality(AreaNames(sc_out.strong_areas)) = Len(sc_out.strong_areas)
        /\ Cardinality(AreaNames(sc_out.growth_areas)) = Len(sc_out.growth_areas)
        /\ AreaNames(sc_out.strong_areas) \cup AreaNames(sc_out.growth_areas)
              \subseteq {AreaName(c) : c \in Categories}

\* a pose was scored for which more than 3 strong entries were collected
\* and the growth list is not empty
C11_StrongCutToThree ==
    /\ sc_pc = "scored"
    /\ Len(CollectedStrong) > 3
    /\ Len(sc_out.strong_areas) = 3
    /\ Len(sc_out.growth_areas) >= 1

\* C12 (as claimed; SpecSeq): an answered request with gender 'female' or
\* 'non-binary' completed without error and returned overall_score 0.
C12_PlaceholderRequestsSucceed ==
    \A r \in Requests :
        (pc[r] = "done" /\ req[r].gender \in {"female", "non-binary"}) =>
            (resp[r].status = 200 /\ resp[r].overall_score = 0)

\* C14 (as claimed; SpecSeq): an answered male request whose landmark lists
\* are too short for the indices the scorer reads is rejected as a client
\* error (HTTP 400).
C14_ShortLandmarksClientError ==
    \A r \in Requests :
        (pc[r] = "done" /\ req[r].gender = "male" /\ req[r].pose = "empty") =>
            resp[r].status = 400

\* the call reached the except branch of extract_body_features
FrontStepFailed == features_front_raises(FeatureFrontLandmarks(sc_in))

\* the call reached the except branch of calculate_posture_score
PostureStepFailed == posture_raises(FeatureSideLandmarks(sc_in))

\* C13 as stated: whenever any step fails internally, the returned scores
\* are exactly overall 70, vtaper 70, symmetry 80, posture 70, with one
\* generic insight and one generic focus area.
C13_AnyFailureGivesDefaults ==
    (sc_pc = "extracted" /\ (FrontStepFailed \/ PostureStepFailed)) =>
        /\ sc_out.scores = [overall |-> 70, vtaper |-> 70, symmetry |-> 80, posture |-> 70]
        /\ Len(sc_out.insights) = 1
        /\ Len(sc_out.focus_areas) = 1

\* C13 amended: extract_body_features always returns; a failure while the
\* front pose is measured gives exactly the default scores with one generic
\* insight and one generic focus area; a failure of the posture step alone
\* gives posture 70 only, with the other scores in 0..100 computed from the
\* front pose, three insights and at least two focus areas.
C13_FailureDefaultsByStep ==
    sc_pc = "extracted" =>
        /\ FrontStepFailed =>
              /\ sc_out.scores = [overall |-> 70, vtaper |-> 70, symmetry |-> 80, posture |-> 70]
              /\ sc_out.insights = <<"Unable to fully analyze - using baseline assessment">>
              /\ sc_out.focus_areas = <<"general fitness">>
        /\ (~FrontStepFailed /\ PostureStepFailed) =>
              /\ sc_out.scores.posture = 70
              /\ sc_out.scores.vtaper \in 0..100
              /\ sc_out.scores.symmetry \in 0..100
              /\ sc_out.scores.overall \in 0..100
              /\ Len(sc_out.insights) = 3
              /\ Len(sc_out.focus_areas) >= 2

\* the posture step alone failed and the scores returned are not the defaults
C13_PostureAloneFailed ==
    /\ sc_pc = "extracted"
    /\ ~FrontStepFailed
    /\ PostureStepFailed
    /\ sc_out.scores.posture = 70
    /\ sc_out.scores.vtaper # 70
    /\ Len(sc_out.insights) = 3

\* C15: the key insight uses the strength sentence of the category with the
\* maximum score and the growth sentence of the category with the minimum
\* score among the seven non-overall categories; 'overall' (the default
\* sentence) is never selected as either.
C15_InsightFromExtremeCategories ==
    sc_pc = "scored" =>
        /\ sc_out.key_insight.strength \in Categories
        /\ \A c \in Categories : sc_out.raw[c] <= sc_out.raw[sc_out.key_insight.strength]
        /\ sc_out.key_insight.growth \in Categories
        /\ \A c \in Categories : sc_out.raw[c] >= sc_out.raw[sc_out.key_insight.growth]

\* the shoulder/hip ratio of the pose scored, in thousandths
ScoredShoulderHipRatio ==
    male_ratios(FrontLandmarks(sc_in), SideLandmarks(sc_in)).shoulder_hip_ratio

\* C16: a shoulder/hip ratio exactly on a band's lower edge (1.45, 1.35,
\* 1.25, 1.15) is scored by that band's formula, not by the band below:
\* shoulders is 85, 75, 65 and 55 there.
C16_BandEdgesInclusive ==
    sc_pc = "scored" =>
        /\ ScoredShoulderHipRatio = 1450 =>
              sc_out.raw["shoulders"] = 85000 /\ sc_out.scores["shoulders"] = 85
        /\ ScoredShoulderHipRatio = 1350 =>
              sc_out.raw["shoulders"] = 75000 /\ sc_out.scores["shoulders"] = 75
        /\ ScoredShoulderHipRatio = 1250 =>
              sc_out.raw["shoulders"] = 65000 /\ sc_out.scores["shoulders"] = 65
        /\ ScoredShoulderHipRatio = 1150 =>
              sc_out.raw["shoulders"] = 55000 /\ sc_out.scores["shoulders"] = 55

\* a pose with ratio exactly 1.45 was scored 85
C16_EdgeScored ==
    /\ sc_pc = "scored"
    /\ ScoredShoulderHipRatio = 1450
    /\ sc_out.scores["shoulders"] = 85

\* C17: when left_hip equals right_hip in the front landmarks the scorer
\* does not divide by zero: the shoulder/hip ratio falls back to 1.0, the
\* shoulders score is 50 and the frame is 'Narrow Frame'.
C17_ZeroHipWidthFallback ==
    (sc_pc = "scored" /\ sc_in.lh = sc_in.rh) =>
        /\ ScoredShoulderHipRatio = 1000
        /\ sc_out.raw["shoulders"] = 50000
        /\ sc_out.scores["shoulders"] = 50
        /\ sc_out.frame = "Narrow Frame"

\* a pose with coincident hips and separate shoulders was scored
C17_CoincidentHipsScored ==
    /\ sc_pc = "scored"
    /\ sc_in.lh = sc_in.rh
    /\ sc_in.ls # sc_in.rs
    /\ sc_out.scores["shoulders"] = 50

\* C18: no zero-length denominator propagates as an error: for every
\* 33-landmark input, including coincident shoulders, hips, wrists or
\* ankles, the legacy analyze_body (with its waist/shoulder BMI proxy)
\* returns through a defined fallback instead of raising.
C18_AnalyzeBodyNeverRaises ==
    (sc_pc = "analyzed" /\ sc_in.n_front = NumLandmarks) => sc_out.raised = ""

\* the entries of a list
AreaRange(s) == {s[i] : i \in 1..Len(s)}

\* the entries of collected that kept leaves out
Dropped(collected, kept) == {e \in AreaRange(collected) : e.name \notin AreaNames(kept)}

\* C19: strong_areas holds the (up to) 3 highest-scoring collected strong
\* entries in descending score order and growth_areas the (up to) 3
\* lowest-scoring collected growth entries in ascending score order; every
\* dropped entry scores no better (strong) / no worse (growth) than every
\* kept one.
C19_TopThreeInOrder ==
    sc_pc = "scored" =>
        /\ Len(sc_out.strong_areas) = Min(3, Len(CollectedStrong))
        /\ Len(sc_out.growth_areas) = Min(3, Len(CollectedGrowth))
        /\ AreaRange(sc_out.strong_areas) \subseteq AreaRange(CollectedStrong)
        /\ AreaRange(sc_out.growth_areas) \subseteq AreaRange(CollectedGrowth)
        /\ \A i, j \in 1..Len(sc_out.strong_areas) :
              i < j => sc_out.strong_areas[i].score >= sc_out.strong_areas[j].score
        /\ \A i, j \in 1..Len(sc_out.growth_areas) :
              i < j => sc_out.growth_areas[i].score <= sc_out.growth_areas[j].score
        /\ \A d \in Dropped(CollectedStrong, sc_out.strong_areas) :
              \A k \in AreaRange(sc_out.strong_areas) : d.score <= k.score
        /\ \A d \in Dropped(CollectedGrowth, sc_out.growth_areas) :
              \A k \in AreaRange(sc_out.growth_areas) : d.score >= k.score

\* more than three strong entries were collected, the first collected was
\* dropped and the kept ones were reordered
C19_SortedAndDropped ==
    /\ sc_pc = "scored"
    /\ Len(CollectedStrong) > 3
    /\ CollectedStrong[1] \in Dropped(CollectedStrong, sc_out.strong_areas)
    /\ sc_out.strong_areas[1].score > sc_out.strong_areas[3].score
    /\ Len(sc_out.growth_areas) >= 2
    /\ sc_out.growth_areas # SubSeq(CollectedGrowth, 1, Len(sc_out.growth_areas))

\* the label of an integer overall score
LabelOfEmitted(overall_score) ==
    IF overall_score >= 85 THEN "Elite Physique"
    ELSE IF overall_score >= 75 THEN "Athletic"
    ELSE IF overall_score >= 65 THEN "Above Average"
    ELSE IF overall_score >= 55 THEN "Average"
    ELSE "Beginner"

\* C20: the body type returned is a function of overall_score alone (>= 85
\* 'Elite Physique', >= 75 'Athletic', >= 65 'Above Average', >= 55
\* 'Average', otherwise 'Beginner'): the label derived from the emitted
\* integer overall_score equals the label returned.
C20_BodyTypeFromEmittedOverall ==
    sc_pc = "scored" =>
        /\ sc_out.body_type = LabelOfEmitted(sc_out.overall_score)
        /\ sc_out.body_type = LabelOfEmitted(sc_out.scores["overall"])

\* an overall score in the upper half below a threshold was scored: the
\* emitted integer is 84, 74, 64 or 54 and the untruncated score is within
\* half a point of the next label
C20_JustBelowThreshold ==
    /\ sc_pc = "scored"
    /\ sc_out.overall_score \in {84, 74, 64, 54}
    /\ sc_out.raw_overall % 100000 >= 50000
    /\ sc_out.body_type = LabelOfEmitted(sc_out.overall_score)

\* C21: in the legacy analyze_body the body-fat estimate is the BMI proxy
\* 18 + (waist/shoulder - 0.6) * 15 clamped to [8,25] and the muscle-mass
\* estimate is 100 minus it, so for every input the body-fat estimate lies
\* in [8,25] and the two estimates sum to 100.
C21_BodyFatClampedProxy ==
    (sc_pc = "analyzed" /\ sc_in.n_front = NumLandmarks) =>
        /\ sc_out.raised = ""
        /\ sc_out.body_fat_estimate = Max(8000, Min(25000, sc_out.bmi_estimate))
        /\ sc_out.body_fat_estimate \in 8000..25000
        /\ sc_out.body_fat_estimate + sc_out.muscle_mass_estimate = 100000

\* where analyze_body returns, the estimate is the clamp of 0.8 times the
\* proxy, lies in [8,25], and the two estimates sum to 100
AnalyzeBodyEstimatesWhenReturned ==
    (sc_pc = "analyzed" /\ sc_out.raised = "") =>
        /\ sc_out.body_fat_estimate = Max(8000, Min(25000, (sc_out.bmi_estimate * 8) \div 10))
        /\ sc_out.body_fat_estimate \in 8000..25000
        /\ sc_out.body_fat_estimate + sc_out.muscle_mass_estimate = 100000

\* the users the requests can name
RequestUsers == {UserId(i.gender) : i \in RequestInputs}

\* the scan a progression row belongs to
ScanOf(row) == scans[row.scan_id]

\* the progression rows of a user are in the order asked for: each has a
\* non-negative days_since_baseline, and of two rows the one of the later
\* scan has no fewer days
DaysFollowScans(user_id) ==
    LET rows == {i \in 1..Len(progression) : progression[i].user_id = user_id}
    IN  /\ \A i \in rows : progression[i].days_since_baseline >= 0
        /\ \A i, j \in rows :
              progression[i].scan_id < progression[j].scan_id =>
                  progression[i].days_since_baseline <= progression[j].days_since_baseline

\* get_progression_history returns the rows in non-decreasing days
HistoryOrdered(user_id) ==
    LET h == get_progression_history(progression, user_id)
    IN  \A i, j \in 1..Len(h) :
            i < j => h[i].days_since_baseline <= h[j].days_since_baseline

\* C22: progression rows are append-only and get_progression_history
\* returns a user's rows in non-decreasing days_since_baseline; under a
\* non-decreasing clock the days_since_baseline of successive non-baseline
\* scans of one user is non-negative and non-decreasing in insertion order.
C22_ProgressionDaysOrdered ==
    /\ [][/\ Len(progression') >= Len(progression)
          /\ \A i \in 1..Len(progression) : progression'[i] = progression[i]
          /\ now' >= now]_vars
    /\ [](\A u \in RequestUsers : HistoryOrdered(u) /\ DaysFollowScans(u))

\* request r ended in an error before any scan row of it was written: the
\* scorer raised, the gender was invalid, or save_scan raised
FailedBeforeScan(r) ==
    /\ pc[r] = "done"
    /\ resp[r].status # 200
    /\ loc[r].scan_id = 0

\* C23: an analysis request that fails because the scorer raises, the
\* gender is invalid or save_scan raises leaves the scans, baseline_metrics
\* and progression tables unchanged (only the users row may have been
\* created) and does not consume the user's baseline slot: the next
\* successful request of that user is still treated as the baseline.
C23_FailedRequestLeavesTables ==
    /\ [][\A r \in Requests :
             (pc[r] \in {"idle", "get_baseline", "score"}
              /\ pc'[r] \in {"get_baseline", "score", "done"}
              /\ pc'[r] # pc[r])
             => UNCHANGED <<scans, baseline_metrics, progression>>]_vars
    /\ [](\A r \in Requests : FailedBeforeScan(r) =>
             \A i \in 1..Len(scans) : scans[i].user_id = loc[r].user_id =>
                 \E q \in Requests \ {r} : loc[q].scan_id = i)
    /\ []((FailedBeforeScan(1) /\ pc[2] = "done" /\ resp[2].status = 200
           /\ loc[2].user_id = loc[1].user_id) => resp[2].is_baseline)

\* a first request failed in the scorer and the user's next request was
\* served as the baseline
C23_FailedThenBaseline ==
    /\ FailedBeforeScan(1)
    /\ resp[1].error = "IndexError"
    /\ loc[1].user_id \in DOMAIN users
    /\ pc[2] = "done"
    /\ resp[2].status = 200
    /\ loc[2].user_id = loc[1].user_id
    /\ resp[2].is_baseline
    /\ \E i \in 1..Len(scans) : scans[i].user_id = loc[2].user_id /\ scans[i].is_baseline

\* C24: in every result of score_male_physique every strong_areas entry
\* has score >= 75 and every growth_areas entry has score < 75, so every
\* strong score is strictly greater than every growth score.
C24_StrongAboveGrowth ==
    sc_pc = "scored" =>
        /\ \A e \in AreaRange(sc_out.strong_areas) : e.score >= 75
        /\ \A e \in AreaRange(sc_out.growth_areas) : e.score < 75
        /\ \A s \in AreaRange(sc_out.strong_areas) :
              \A g \in AreaRange(sc_out.growth_areas) : s.score > g.score

\* a strong entry at the lowest strong score, 75, beside a growth entry
C24_StrongAtSeventyFive ==
    /\ sc_pc = "scored"
    /\ \E s \in AreaRange(sc_out.strong_areas) : s.score = 75
    /\ \E g \in AreaRange(sc_out.growth_areas) : g.score >= 60

\* C25: for every overall_score in 0..100 the legacy bodyFatEstimate
\* max(8, min(25, 100 - overall_score * 0.2)) is 25 and muscleMassEstimate
\* is 75, so the diet plan returned with a physique analysis always has
\* calories = 1700 whatever the scores.
C25_DietPlanConstant ==
    sc_pc = "planned" =>
        /\ sc_out.bodyFatEstimate = 250
        /\ sc_out.muscleMassEstimate = 750
        /\ sc_out.dietPlan.calories = 1700

\* the plan of the highest overall score, 100, where 100 - 100 * 0.2 = 80
\* is still clamped to 25
C25_PlanOfHundred ==
    /\ sc_pc = "planned"
    /\ sc_in = 100
    /\ sc_out.bodyFatEstimate = 250
    /\ sc_out.dietPlan = [calories |-> 1700, protein |-> 128, carbs |-> 170, fats |-> 57]

\* the progress of the demo user, and the task a request names
Progress == progress_of(user_progress_db)

IsCompleteStep == path_calls' = path_calls + 1 /\ path_resp'.op = "complete_task"

Answered200 == path_resp.op = "complete_task" /\ path_resp.status = 200

RequestedTask(request) ==
    LET stages == pathways_db[request.pathway_id].stages
        s == find_stage(stages, request.stage_day)
    IN  stages[s].tasks[find_task(stages[s].tasks, request.task_id)]

LeagueByThreshold(total_xp) ==
    CASE total_xp >= 5000 -> "diamond"
      [] total_xp \in 2500..4999 -> "platinum"
      [] total_xp \in 1000..2499 -> "gold"
      [] total_xp \in 500..999 -> "silver"
      [] OTHER -> "bronze"

\* C26: every complete_task call answered 200 adds exactly the task's xp to
\* total_xp, also when the task was already completed (a request repeated n
\* times adds n times the xp); no complete_task call lowers total_xp; and
\* after each such call the league is the one the thresholds 500, 1000, 2500
\* and 5000 give for total_xp.
C26_XpAddedLeagueByThreshold ==
    /\ [][(IsCompleteStep /\ path_resp'.status = 200) =>
             /\ Progress'.total_xp =
                    Progress.total_xp
                    + path_resp'.times * RequestedTask(path_resp'.request).xp
             /\ Progress'.league = LeagueByThreshold(Progress'.total_xp)]_vars
    /\ [][IsCompleteStep => Progress'.total_xp >= Progress.total_xp]_vars
    /\ [](Answered200 => Progress.league = LeagueByThreshold(Progress.total_xp))

\* the first workout is completed 25 times in a row, 24 of them when it was
\* already completed, and its 20 xp each time bring the total to exactly 500
C26_SilverAtFiveHundred ==
    /\ Answered200
    /\ path_resp.times = 25
    /\ path_resp.request.task_id = <<1, "workout">>
    /\ Progress.total_xp = 500
    /\ Progress.league = "silver"
    /\ Progress.streak = 0

StageOf(db, request) ==
    db[request.pathway_id].stages[find_stage(db[request.pathway_id].stages, request.stage_day)]

\* C27: over complete_task calls current_day never decreases; it changes only
\* in a call answered 200 whose stage_day equals the current_day before the
\* call, which sets it to stage_day + 1 and leaves every task of that stage
\* completed; a call answered 200 for any other stage_day leaves it unchanged.
C27_CurrentDayAdvancesByOne ==
    [][IsCompleteStep =>
          /\ Progress'.current_day >= Progress.current_day
          /\ Progress'.current_day # Progress.current_day =>
                 /\ path_resp'.status = 200
                 /\ path_resp'.request.stage_day = Progress.current_day
                 /\ Progress'.current_day = path_resp'.request.stage_day + 1
                 /\ all_complete(StageOf(pathways_db', path_resp'.request).tasks)
          /\ (path_resp'.status = 200
              /\ path_resp'.request.stage_day # Progress.current_day) =>
                 Progress'.current_day = Progress.current_day]_vars

\* the third task of day 1 is completed on day 1, and the day is now 2
C27_DayOneDone ==
    /\ Answered200
    /\ path_resp.request.stage_day = 1
    /\ path_resp.stage_completed
    /\ Progress.current_day = 2
    /\ Progress.streak = 1
    /\ Progress.total_xp = 30

\* C28: in every state each stored stage marked completed has every task
\* marked completed, and no complete_task call removes a stored pathway or
\* turns the completed flag of a stage or of a task from true to false.
C28_CompletedStaysCompleted ==
    /\ [](\A id \in DOMAIN pathways_db :
            \A s \in DOMAIN pathways_db[id].stages :
               pathways_db[id].stages[s].completed =>
                   \A t \in DOMAIN pathways_db[id].stages[s].tasks :
                       pathways_db[id].stages[s].tasks[t].completed)
    /\ [][IsCompleteStep =>
             \A id \in DOMAIN pathways_db :
                /\ id \in DOMAIN pathways_db'
                /\ DOMAIN pathways_db'[id].stages = DOMAIN pathways_db[id].stages
                /\ \A s \in DOMAIN pathways_db[id].stages :
                      /\ pathways_db[id].stages[s].completed =>
                             pathways_db'[id].stages[s].completed
                      /\ \A t \in DOMAIN pathways_db[id].stages[s].tasks :
                             pathways_db[id].stages[s].tasks[t].completed =>
                                 pathways_db'[id].stages[s].tasks[t].completed]_vars

\* day 7 was completed by its two tasks, and a call for the workout of day 1
\* came after it: day 7 is still completed, day 1 is not
C28_RecoveryDoneWorkoutBegun ==
    /\ Answered200
    /\ path_resp.request.task_id = <<1, "workout">>
    /\ path_resp.times = 1
    /\ LET stages == pathways_db[path_resp.request.pathway_id].stages
       IN  /\ Len(stages) = 14
           /\ stages[7].completed
           /\ stages[7].tasks[1].completed /\ stages[7].tasks[2].completed
           /\ ~stages[1].completed
           /\ stages[1].tasks[1].completed /\ ~stages[1].tasks[2].completed

UnknownRequest(request) ==
    \/ request.pathway_id \notin DOMAIN pathways_db
    \/ \A s \in DOMAIN pathways_db[request.pathway_id].stages :
          \/ pathways_db[request.pathway_id].stages[s].day # request.stage_day
          \/ \A t \in DOMAIN pathways_db[request.pathway_id].stages[s].tasks :
                pathways_db[request.pathway_id].stages[s].tasks[t].id # request.task_id

\* C29: in every state a complete_task call that names an unknown pathway_id,
\* a stage_day the pathway does not have or a task_id the stage does not have
\* is answered 404 and leaves pathways_db and the user's progress as they
\* were; and every complete_task step not answered 200 is answered 404 and
\* changes neither.
C29_UnknownIds404Unchanged ==
    /\ [](\A request \in CompleteRequests :
            UnknownRequest(request) =>
                LET out == complete_task(pathways_db, user_progress_db, request)
                IN  /\ out.resp.status = 404
                    /\ out.pathways_db = pathways_db
                    /\ out.user_progress_db = user_progress_db)
    /\ [][(IsCompleteStep /\ path_resp'.status # 200) =>
             /\ path_resp'.status = 404
             /\ pathways_db' = pathways_db
             /\ user_progress_db' = user_progress_db]_vars

\* after day 7 earned xp and a streak, a call is answered "Task not found"
C29_TaskNotFoundAfterProgress ==
    /\ path_resp.op = "complete_task"
    /\ path_resp.status = 404
    /\ path_resp.detail = "Task not found"
    /\ Progress.total_xp = 15
    /\ Progress.streak = 1
    /\ Progress.current_day = 1
    /\ Progress.league = "bronze"

RECURSIVE XpOfDays(_, _)
XpOfDays(stages, n) == IF n = 0 THEN 0 ELSE stages[n].xp + XpOfDays(stages, n - 1)

\* C30: generate_pathway with commitment_days = N >= 1 returns exactly N
\* stages, the d-th of them for day d and not completed; the stage of day d
\* is an assessment exactly when 14 divides d, a recovery exactly when 7 but
\* not 14 divides d, and a workout otherwise; and the pathway's total_xp is
\* the sum of the stages' xp.
C30_StagesOfCommitment ==
    sc_pc = "generated" =>
        /\ Len(sc_out.stages) = sc_in.commitment_days
        /\ \A d \in 1..sc_in.commitment_days :
              /\ sc_out.stages[d].day = d
              /\ sc_out.stages[d].completed = FALSE
              /\ sc_out.stages[d].type \in {"assessment", "recovery", "workout"}
              /\ sc_out.stages[d].type = "assessment" <=> d % 14 = 0
              /\ sc_out.stages[d].type = "recovery" <=> (d % 7 = 0 /\ d % 14 # 0)
        /\ sc_out.total_xp = XpOfDays(sc_out.stages, sc_in.commitment_days)

\* 28 days: recoveries on days 7 and 21, assessments on days 14 and 28
C30_FourWeeks ==
    /\ sc_pc = "generated"
    /\ sc_in.commitment_days = 28
    /\ sc_out.stages[7].type = "recovery" /\ sc_out.stages[21].type = "recovery"
    /\ sc_out.stages[14].type = "assessment" /\ sc_out.stages[28].type = "assessment"
    /\ sc_out.stages[27].type = "workout"
    /\ has_focus(sc_out.focus_areas, {"posture"})
    /\ has_focus(sc_out.focus_areas, {"shoulders", "lats"})
    /\ sc_out.total_xp = 850

=============================================================================
